---- MODULE Spec2Model ----
(***************************************************************************)
(* Verification model of cordbun's rate-limit controller (BucketManager,   *)
(* REST.request), gateway shards (Gateway class, createShard) and shard    *)
(* orchestrator (createGateway).                                           *)
(*                                                                         *)
(* Time is in milliseconds, as Date.now() in the source; the clock of the  *)
(* rate-limit controller moves in steps of one second, the clock of the    *)
(* shard timers in steps of TickMs.  Each JavaScript job (the code between *)
(* two awaits, a timer callback, a socket event handler) is one action.    *)
(***************************************************************************)
EXTENDS Integers, Naturals, Sequences, FiniteSets, Bags, TLC

\* ------------------------------------------------------------------ bounds
NumCallers == 2
MaxSeconds == 2
MaxRemaining == 1
MaxRetries == 2
MaxSockets == 2
MaxTimers == 2
MaxBeatTimers == 3
MaxHubShards == 2
MaxSeq == 1
MaxShards == 4
MaxConcurrency == 2
MaxGuildHigh == 4
MaxReconnects == 6
StepsPerWindow == 4
MaxWindows == 3
MaxInvalid == 2
MaxSegments == 4

\* ------------------------------------------------------------- value sets
Callers == 1..NumCallers
RouteKeys == {"GET:/a:", "GET:/b:"}
ServerBuckets == {"b1"}
NoBucketHeader == ""
NoKey == "none"
NoCaller == 0
RetryAfters == {1}
INVALID_REQUEST_WINDOW == 600000
DefaultRetries == 3

\* RateLimitData as REST.parseRateLimitHeaders produces it: reset in epoch
\* seconds, bucket the X-RateLimit-Bucket header or "" when it is absent.
RateLimitData ==
    [remaining : 0..MaxRemaining, reset : 0..MaxSeconds,
     bucket : ServerBuckets \cup {NoBucketHeader}]

VARIABLES
    now,          \* Date.now()
    globalReset,  \* BucketManager.globalReset
    buckets,      \* BucketManager.buckets : bucket key -> RateLimitBucket
    bucketKeys,   \* BucketManager.bucketKeys : route key -> bucket key
    locks,        \* BucketManager.locks : bucket key -> owner of the promise
    acq,          \* one acquire() call per caller: position and locals
    quota,        \* history: per bucket, the remaining stored by its last
                  \* update() minus the acquire() returns since (floor -1)
    observed      \* history: per route key, the server bucket id of the last
                  \* response that reported one, until a sweep removes that
                  \* bucket

VARIABLES
    req,                      \* one REST.request() call chain per caller
    retries,                  \* REST config.retries
    invalidRequestCount,      \* REST.invalidRequestCount
    invalidRequestResetTime   \* REST.invalidRequestResetTime

bmVars == <<now, globalReset, buckets, bucketKeys, locks, acq, quota, observed>>

restVars == <<req, retries, invalidRequestCount, invalidRequestResetTime>>

VARIABLES
    impl,     \* which implementation the shard is: "Gateway" or "Shard"
    shard,    \* the shard object's fields (Gateway fields; createShard's
              \* closure variables and state)
    orphans,  \* the WebSocket objects the shard no longer holds that have
              \* not closed yet (a bag)
    timers,   \* the pending setTimeout / setInterval timers (a bag)
    ev,       \* history: the event the last step handled
    sent,     \* history: the payloads the last step sent
    hold      \* history: why the shard is to stay down ("init", "none",
              \* "fatal" since a non-resumable close of the socket it holds,
              \* "disconnect" since disconnect()), until connect() is called

gwVars == <<impl, shard, orphans, timers, ev, sent, hold>>

VARIABLES
    options,         \* createGateway's options.shards
    shardCount,      \* createGateway's shardCount
    shardIds,        \* createGateway's shardIds
    maxConcurrency,  \* createGateway's maxConcurrency
    shards,          \* the ids in createGateway's shards map
    spawn,           \* the connect() / spawnShards() call: its position, its
                     \* buckets array and the index of the bucket awaited
    attempt,         \* per shard id, the connect() of the shard created
                     \* last: "none", "connecting", "open", "failed",
                     \* "closing" (disconnected while connecting), "closed"
    waves,           \* history: the buckets spawnShards has started
    cmd              \* history: the last command routed, with the ids of
                     \* the shards it was handed to

orchVars ==
    <<options, shardCount, shardIds, maxConcurrency, shards, spawn, attempt, waves, cmd>>

VARIABLES
    routed           \* history: the last getRouteKey(method, route) call and
                     \* the key it returned

keyVars == <<routed>>

VARIABLES
    reconnects       \* history: the sockets the shard has opened to reconnect
                     \* since the last READY or RESUMED

VARIABLES
    warn             \* history: the time of the last invalid request
                     \* recorded, and the last run of the warning timer

VARIABLES
    hub              \* createGateway's handlers map and the handler sets of
                     \* the shards in its shards map; history: the event a
                     \* shard emitted last and the calls each handler got

countVars == <<reconnects, warn, hub>>

vars == <<bmVars, restVars, gwVars, orchVars, keyVars, countVars>>

\* ------------------------------------------------------- BucketManager
IdleCall ==
    [pc |-> "idle", key |-> NoKey, bucketKey |-> NoKey, awaiting |-> NoCaller,
     wakeAt |-> 0, slept |-> "no"]

\* bucketKeys.get(key) ?? key
ResolveKey(key) == IF key \in DOMAIN bucketKeys THEN bucketKeys[key] ELSE key

\* get(key) !== undefined
HasBucket(key) == ResolveKey(key) \in DOMAIN buckets

\* get(key)
Get(key) == buckets[ResolveKey(key)]

\* getDelay(key)
GetDelay(key) ==
    IF globalReset > now THEN globalReset - now
    ELSE IF ~HasBucket(key) THEN 0
    ELSE IF Get(key).remaining <= 0 /\ Get(key).reset > now THEN Get(key).reset - now
    ELSE 0

\* which branch of getDelay produced the delay: "global", the key of the
\* exhausted bucket, or "no"
DelayCause(key) ==
    IF globalReset > now THEN "global"
    ELSE IF HasBucket(key) /\ Get(key).remaining <= 0 /\ Get(key).reset > now
    THEN ResolveKey(key)
    ELSE "no"

\* Removes key k from the function f.
Without(f, k) == [x \in DOMAIN f \ {k} |-> f[x]]

\* Sets f[k] = v, adding k to the domain when absent.
With(f, k, v) == [x \in DOMAIN f \cup {k} |-> IF x = k THEN v ELSE f[x]]

Max(a, b) == IF a >= b THEN a ELSE b

\* Variant: the final section of acquire() without locks.delete.
FinishKeepsLock(c, a) ==
    LET bk == ResolveKey(a.key)
        has == bk \in DOMAIN buckets
        dec == has /\ buckets[bk].remaining > 0
    IN  /\ buckets' = IF dec
                      THEN [buckets EXCEPT ![bk].remaining = @ - 1]
                      ELSE buckets
        /\ locks' = locks
        /\ acq' = [w \in Callers |->
                     IF w = c
                     THEN [a EXCEPT !.pc = "done", !.awaiting = NoCaller]
                     ELSE IF acq[w].pc = "waitLock" /\ acq[w].awaiting = c
                     THEN [acq[w] EXCEPT !.awaiting = NoCaller]
                     ELSE acq[w]]
        /\ quota' = IF has THEN [quota EXCEPT ![bk] = Max(@ - 1, -1)] ELSE quota
        /\ UNCHANGED <<now, globalReset, bucketKeys, observed>>

\* acquire(), lines 95-102: decrement, delete the lock, resolve the promise
\* (every caller awaiting it becomes runnable).  a is the caller's record as
\* it enters this final section.
Finish(c, a) ==
    LET bk == ResolveKey(a.key)
        has == bk \in DOMAIN buckets
        dec == has /\ buckets[bk].remaining > 0
    IN  /\ buckets' = IF dec
                      THEN [buckets EXCEPT ![bk].remaining = @ - 1]
                      ELSE buckets
        /\ locks' = Without(locks, a.bucketKey)
        /\ acq' = [w \in Callers |->
                     IF w = c
                     THEN [a EXCEPT !.pc = "done", !.awaiting = NoCaller]
                     ELSE IF acq[w].pc = "waitLock" /\ acq[w].awaiting = c
                     THEN [acq[w] EXCEPT !.awaiting = NoCaller]
                     ELSE acq[w]]
        /\ quota' = IF has THEN [quota EXCEPT ![bk] = Max(@ - 1, -1)] ELSE quota
        /\ UNCHANGED <<now, globalReset, bucketKeys, observed>>

\* acquire(), lines 83-93 once the lock is free: take the lock, compute the
\* delay, and either sleep or run straight through the final section.
Enter(c, a) ==
    LET d == GetDelay(a.key)
    IN  IF d > 0
        THEN /\ locks' = With(locks, a.bucketKey, c)
             /\ acq' = [acq EXCEPT ![c] = [a EXCEPT !.pc = "sleeping",
                                                    !.wakeAt = now + d,
                                                    !.slept = DelayCause(a.key),
                                                    !.awaiting = NoCaller]]
             /\ UNCHANGED <<now, globalReset, buckets, bucketKeys, quota, observed>>
        ELSE Finish(c, a)

\* acquire(), the while loop at lines 79-81: wait on the lock's promise if the
\* lock is held, otherwise go on.
TryLock(c, a) ==
    IF a.bucketKey \in DOMAIN locks
    THEN /\ acq' = [acq EXCEPT ![c] = [a EXCEPT !.pc = "waitLock",
                                                !.awaiting = locks[a.bucketKey]]]
         /\ UNCHANGED <<now, globalReset, buckets, bucketKeys, locks, quota, observed>>
    ELSE Enter(c, a)

\* A caller calls acquire(key).
AcquireStart(c, key) ==
    /\ acq[c].pc = "idle"
    /\ TryLock(c, [IdleCall EXCEPT !.key = key, !.bucketKey = ResolveKey(key)])

\* The awaited lock promise was resolved: the loop tests the lock again.
AcquireWake(c) ==
    /\ acq[c].pc = "waitLock"
    /\ acq[c].awaiting = NoCaller
    /\ TryLock(c, acq[c])

\* Bun.sleep(delay) is over.
AcquireAfterSleep(c) ==
    /\ acq[c].pc = "sleeping"
    /\ now >= acq[c].wakeAt
    /\ Finish(c, acq[c])

\* The caller that got its slot is finished with it (it may call again).
AcquireReturn(c) ==
    /\ acq[c].pc = "done"
    /\ acq' = [acq EXCEPT ![c] = IdleCall]
    /\ UNCHANGED <<now, globalReset, buckets, bucketKeys, locks, quota, observed>>

\* update(key, data) without the aliasing of its lines 35-37.
UpdateBucketKeysUnaliased(bks, key, data) == bks

\* update(key, data): the alias table after the call.
UpdateBucketKeys(bks, key, data) ==
    IF data.bucket # "" THEN With(bks, key, data.bucket) ELSE bks

\* update(key, data): data.bucket ?? key, where data.bucket is a string.
UpdateTarget(key, data) == data.bucket

\* update(key, data): the bucket table after the call.
UpdateBuckets(bs, key, data) ==
    With(bs, UpdateTarget(key, data),
         [remaining |-> data.remaining, reset |-> data.reset * 1000])

\* The response for route key reports data.bucket, when it reports one.
Observe(obs, key, data) ==
    IF data.bucket # NoBucketHeader THEN With(obs, key, data.bucket) ELSE obs

Update(key, data) ==
    /\ bucketKeys' = UpdateBucketKeys(bucketKeys, key, data)
    /\ buckets' = UpdateBuckets(buckets, key, data)
    /\ quota' = With(quota, UpdateTarget(key, data), data.remaining)
    /\ observed' = Observe(observed, key, data)
    /\ UNCHANGED <<now, globalReset, locks, acq>>

\* setGlobalReset(reset)
SetGlobalReset(reset) ==
    /\ globalReset' = reset
    /\ UNCHANGED <<now, buckets, bucketKeys, locks, acq, quota, observed>>

\* sweep(): buckets kept, then alias entries kept
\* Variant: a bucket whose reset is the present instant is removed too.
SweepBucketsInclusive == [k \in {x \in DOMAIN buckets : ~(buckets[x].reset <= now)} |-> buckets[k]]

SweepBuckets == [k \in {x \in DOMAIN buckets : ~(buckets[x].reset < now)} |-> buckets[k]]

\* Variant: sweep() without the loop of its lines 128-132.
SweepBucketKeysKept == bucketKeys

SweepBucketKeys ==
    [r \in {x \in DOMAIN bucketKeys : bucketKeys[x] \in DOMAIN SweepBuckets} |-> bucketKeys[r]]

\* The number sweep() returns.
SweepCount == Cardinality(DOMAIN buckets \ DOMAIN SweepBuckets)

Sweep ==
    /\ buckets' = SweepBuckets
    /\ bucketKeys' = SweepBucketKeys
    /\ quota' = [k \in DOMAIN SweepBuckets |-> quota[k]]
    /\ observed' = [r \in {x \in DOMAIN observed : observed[x] \in DOMAIN SweepBuckets} |->
                       observed[r]]
    /\ UNCHANGED <<now, globalReset, locks, acq>>

EmptyMap == [x \in {} |-> 0]

\* destroy(): the callers inside acquire() go on with the maps cleared.
Destroy ==
    /\ buckets' = EmptyMap
    /\ bucketKeys' = EmptyMap
    /\ locks' = EmptyMap
    /\ globalReset' = 0
    /\ quota' = EmptyMap
    /\ observed' = EmptyMap
    /\ UNCHANGED <<now, acq>>

\* The clock advances by one second.
Tick ==
    /\ now + 1000 <= MaxSeconds * 1000
    /\ now' = now + 1000
    /\ UNCHANGED <<globalReset, buckets, bucketKeys, locks, acq, quota, observed>>

IdleReq ==
    [pc |-> "idle", key |-> NoKey, retryCount |-> 0, wakeAt |-> 0, outcome |-> "none",
     calls |-> 0, n429 |-> 0, cause |-> "none", errRetryAfter |-> 0, pend |-> "none"]

InitBM ==
    /\ now = 0
    /\ globalReset = 0
    /\ buckets = EmptyMap
    /\ bucketKeys = EmptyMap
    /\ locks = EmptyMap
    /\ acq = [c \in Callers |-> IdleCall]
    /\ quota = EmptyMap
    /\ observed = EmptyMap

\* ------------------------------------------------------------ getRouteKey
\* A route is the sequence of its path segments: <<"channels", "123">> is
\* /channels/123.  The segments \d+ matches are the ids.
Methods == {"GET", "DELETE"}

Ids == {"123", "456", "789", "999"}

Segments == {"channels", "guilds", "webhooks", "messages", "123", "999"}

SeqsUpTo(S, n) == UNION {[1..k -> S] : k \in 1..n}

Routes == SeqsUpTo(Segments, MaxSegments)

RECURSIVE Path(_)
Path(segs) == IF segs = <<>> THEN "" ELSE "/" \o Head(segs) \o Path(Tail(segs))

Least(S) == CHOOSE i \in S : \A j \in S : i <= j

\* Variant: the key leaves out the major parameter.
getRouteKeyWithoutMajor(method, route) ==
    LET routeWithoutIds == Path([i \in 1..Len(route) |->
                                   IF route[i] \in Ids THEN ":id" ELSE route[i]])
    IN  method \o ":" \o routeWithoutIds \o ":"

getRouteKey(method, route) ==
    LET webhookAt == {i \in 1..(Len(route) - 2) :
                         route[i] = "webhooks" /\ route[i + 1] \in Ids}
        majorAt == {i \in 1..(Len(route) - 1) :
                       /\ route[i] \in {"channels", "guilds", "webhooks"}
                       /\ route[i + 1] \in Ids}
        majorId == IF webhookAt # {}
                   THEN route[Least(webhookAt) + 1] \o ":" \o route[Least(webhookAt) + 2]
                   ELSE IF majorAt # {} THEN route[Least(majorAt) + 1] ELSE ""
        routeWithoutIds == Path([i \in 1..Len(route) |->
                                   IF route[i] \in Ids THEN ":id" ELSE route[i]])
    IN  method \o ":" \o routeWithoutIds \o ":" \o majorId

NoRoute == [method |-> "none", route |-> <<>>, key |-> "none"]

\* A call not yet evaluated.
Called(method, route) == [method |-> method, route |-> route, key |-> "pending"]

GetRouteKey ==
    /\ routed.key = "pending"
    /\ routed' = [routed EXCEPT !.key = getRouteKey(routed.method, routed.route)]

InitRest ==
    /\ req = [c \in Callers |-> IdleReq]
    /\ invalidRequestCount = 0
    /\ invalidRequestResetTime = now + INVALID_REQUEST_WINDOW

\* The server reports a reset time that has not passed yet.
FreshData(data) == data.reset * 1000 >= now

\* ----------------------------------------------------------- REST.request
Statuses == {200, 204, 401, 403, 404, 429, 500}
Scopes == {"none", "user", "shared"}
RestCallers == {1}

\* parseRateLimitHeaders returned null (no X-RateLimit-Limit header)
NoData == [remaining |-> -1, reset |-> -1, bucket |-> "absent"]

\* A response: status, whether Content-Type is application/json, the
\* rate-limit headers (rl, scope, rlGlobal, retryAfterHeader; 0 = no
\* Retry-After header), the 429 body (retryAfter, global) and whether
\* response.json() can parse the body.
Resp(st, js, rl, sc, rg, rah, ra, g) ==
    [status |-> st, json |-> js, rl |-> rl, scope |-> sc, rlGlobal |-> rg,
     retryAfterHeader |-> rah, retryAfter |-> ra, global |-> g, parses |-> TRUE]

\* the rate-limit headers with the X-RateLimit-Scope header of the response
ScopedData == ({NoData} \X {"none", "shared"}) \cup (RateLimitData \X Scopes)

\* rateLimit?.scope: the scope header is read only when the limit header is
\* present.
ParsedScope(r) == IF r.rl = NoData THEN "none" ELSE r.scope

\* Fields the code never reads for a response are left at their defaults.
ParsedResponses ==
    {Resp(st, js, rl, "none", FALSE, 0, 1, FALSE) :
        st \in Statuses \ {429}, js \in BOOLEAN, rl \in RateLimitData \cup {NoData}}
    \cup {Resp(429, TRUE, d[1], d[2], FALSE, 0, ra, g) :
        d \in ScopedData, ra \in RetryAfters, g \in BOOLEAN}
    \cup {Resp(429, FALSE, d[1], d[2], rg, rah, 1, FALSE) :
        d \in ScopedData, rg \in BOOLEAN, rah \in {0} \cup RetryAfters}

\* A body announced as JSON may fail to parse; the body's fields are then
\* never read.
Responses ==
    ParsedResponses \cup
    {[r EXCEPT !.parses = FALSE, !.retryAfter = 1, !.global = FALSE] :
        r \in {x \in ParsedResponses : x.json /\ x.status # 204}}

WellFormed(r) == r.rl # NoData => FreshData(r.rl)

\* trackInvalidRequest(): the counter and the window end after the call
TrackedCount ==
    (IF now >= invalidRequestResetTime THEN 0 ELSE invalidRequestCount) + 1

TrackedResetTime ==
    IF now >= invalidRequestResetTime THEN now + INVALID_REQUEST_WINDOW
    ELSE invalidRequestResetTime

\* ---------------------------------------- REST: invalid-request warning
\* config.invalidRequestWarningInterval, a positive one: the timer of the
\* constructor runs every WarnInterval ms.
WarnInterval == INVALID_REQUEST_WINDOW \div StepsPerWindow

\* last: when trackInvalidRequest() ran last (-1: never).  at: when the
\* timer callback ran last.  count, remainingTime: the warning it emitted
\* (count 0: it emitted none).  age: the time from the last invalid request
\* to that run (-1: there was none).
NoWarning == [last |-> -1, at |-> 0, count |-> 0, remainingTime |-> 0, age |-> -1]

\* trackInvalidRequest(), as request() calls it for a response with status
\* 401 or 403 and for a 429 that is not shared.
TrackInvalidRequest ==
    /\ TrackedCount <= MaxInvalid
    /\ invalidRequestCount' = TrackedCount
    /\ invalidRequestResetTime' = TrackedResetTime
    /\ warn' = [warn EXCEPT !.last = now]
    /\ UNCHANGED <<bmVars, req, retries, reconnects, hub>>

\* The callback of the constructor's setInterval, run once at each multiple
\* of the interval.
WarningTimer ==
    /\ now > 0 /\ now % WarnInterval = 0 /\ warn.at # now
    /\ warn' = [warn EXCEPT !.at = now,
                            !.count = IF invalidRequestCount > 0 THEN invalidRequestCount ELSE 0,
                            !.remainingTime =
                                IF invalidRequestCount > 0
                                THEN Max(0, invalidRequestResetTime - now) ELSE 0,
                            !.age = IF warn.last < 0 THEN -1 ELSE now - warn.last]
    /\ UNCHANGED <<bmVars, restVars, reconnects, hub>>

\* The clock moves on to the next run of the timer, after the timer has run
\* at the present instant.
WarnClock ==
    /\ now = 0 \/ warn.at = now
    /\ now + WarnInterval <= MaxWindows * INVALID_REQUEST_WINDOW
    /\ now' = now + WarnInterval
    /\ UNCHANGED <<globalReset, buckets, bucketKeys, locks, acq, quota, observed,
                   restVars, countVars>>

\* -------------------------------------- createGateway: on, off and emit
\* Event names, handler functions, and the closure (data) => emit(event, data)
\* that setupShardEvents registers on a shard.
EventNames == {"ready", "messageCreate"}
HandlerIds == {"h1", "h2"}
Wrapper == "wrap"
HubShardIds == 0..(MaxHubShards - 1)

NoListeners == [e \in EventNames |-> {}]
NoCalls == [h \in HandlerIds |-> 0]

\* keys: the events with an entry in the handlers map; next: the index in
\* shardIds of the shard spawnShards creates next (MaxHubShards: no
\* spawnShards is running); shards: the handler sets of the shards in the
\* map, by id.
NoHub ==
    [keys |-> {}, handlers |-> NoListeners, shards |-> <<>>, next |-> MaxHubShards,
     emitted |-> "none", calls |-> NoCalls]

Quiet(h) == [h EXCEPT !.emitted = "none", !.calls = NoCalls]

\* setupShardEvents on a shard just created: a wrapper for each event that has
\* an entry in the handlers map.
SetupShardEvents == [e \in EventNames |-> IF e \in hub.keys THEN {Wrapper} ELSE {}]

\* connect() with shards "auto", up to its await of GET /gateway/bot.
HubConnect ==
    /\ hub.next = MaxHubShards
    /\ hub' = [Quiet(hub) EXCEPT !.next = 0]

\* spawnShards with max_concurrency 1: the shard of the next bucket is
\* created, put in the map and given its wrappers.
HubSpawn ==
    /\ hub.next < MaxHubShards
    /\ hub' = [Quiet(hub) EXCEPT
                 !.shards = [id \in DOMAIN hub.shards \cup {hub.next} |->
                                IF id = hub.next THEN SetupShardEvents ELSE hub.shards[id]],
                 !.next = @ + 1]

\* disconnect(): the shards are disconnected and the map is cleared.
HubDisconnect ==
    /\ DOMAIN hub.shards # {}
    /\ hub' = [Quiet(hub) EXCEPT !.shards = <<>>]

\* on(event, handler) of the orchestrator
HubOn(e, h) ==
    hub' = [Quiet(hub) EXCEPT
              !.keys = @ \cup {e},
              !.handlers[e] = @ \cup {h},
              !.shards = [id \in DOMAIN hub.shards |->
                             [hub.shards[id] EXCEPT ![e] = @ \cup {h}]]]

\* off(event, handler) of the orchestrator
HubOff(e, h) ==
    hub' = [Quiet(hub) EXCEPT
              !.handlers[e] = @ \ {h},
              !.shards = [id \in DOMAIN hub.shards |->
                             [hub.shards[id] EXCEPT ![e] = @ \ {h}]]]

\* The calls handler h gets when shard id emits e: one if it is in the
\* shard's set, and one through the wrapper's emit if it is in the
\* orchestrator's set.
Invocations(id, e, h) ==
    (IF h \in hub.shards[id][e] THEN 1 ELSE 0)
    + (IF Wrapper \in hub.shards[id][e] /\ h \in hub.handlers[e] THEN 1 ELSE 0)

\* A shard of the map dispatches an event: createShard's emit.
ShardEmits(id, e) ==
    /\ id \in DOMAIN hub.shards
    /\ hub' = [hub EXCEPT !.emitted = e,
                          !.calls = [h \in HandlerIds |-> Invocations(id, e, h)]]

\* (mutant) the catch block retrying a RateLimitError whatever retryCount is
ShouldRetryUncapped(kind, status, retryCount) ==
    CASE kind = "AbortError"      -> retryCount < retries
      [] kind = "RateLimitError"  -> TRUE
      [] kind = "RESTError"       -> status >= 500 /\ retryCount < retries
      [] kind = "CloudflareError" -> retryCount < retries

\* the catch block of request(), lines 234-257: is the error retried?
\* Variant: a timed-out attempt is retried without counting against the cap.
ShouldRetryTimeoutUncounted(kind, status, retryCount) ==
    CASE kind = "AbortError"      -> TRUE
      [] kind = "RateLimitError"  -> retryCount < retries
      [] kind = "RESTError"       -> status >= 500 /\ retryCount < retries
      [] kind = "CloudflareError" -> retryCount < retries

ShouldRetry(kind, status, retryCount) ==
    CASE kind = "AbortError"      -> retryCount < retries
      [] kind = "RateLimitError"  -> retryCount < retries
      [] kind = "RESTError"       -> status >= 500 /\ retryCount < retries
      [] kind = "CloudflareError" -> retryCount < retries

\* the catch block: the sleep before the retry, in ms
RetryDelay(kind, retryAfter, retryCount) ==
    CASE kind = "AbortError"      -> 0
      [] kind = "RateLimitError"  -> retryAfter * 1000
      [] kind = "RESTError"       -> 1000 * (retryCount + 1)
      [] kind = "CloudflareError" -> 1000 * (retryCount + 1)

\* the error the caller sees when the catch block rethrows
Thrown(kind) == IF kind = "AbortError" THEN "TimeoutError" ELSE kind

\* the catch block for an error that is slept on or rethrown: the request
\* record after it
Caught(q, kind, status, retryAfter) ==
    IF ShouldRetry(kind, status, q.retryCount)
    THEN [q EXCEPT !.pc = "retrySleep", !.pend = "none", !.cause = kind,
                   !.errRetryAfter = retryAfter,
                   !.wakeAt = now + RetryDelay(kind, retryAfter, q.retryCount)]
    ELSE [q EXCEPT !.pc = "failed", !.pend = "none", !.cause = kind,
                   !.errRetryAfter = retryAfter, !.outcome = Thrown(kind)]

\* response.json() rejected: the catch block rethrows the error.
Rejected(q, err) ==
    [q EXCEPT !.pc = "failed", !.pend = "none", !.cause = err, !.outcome = err]

\* request(method, route, opts, retryCount) up to `await acquire`
RestRequest(c, key) ==
    /\ req[c].pc = "idle"
    /\ req' = [req EXCEPT ![c] = [IdleReq EXCEPT !.pc = "acquire", !.key = key]]
    /\ AcquireStart(c, key)
    /\ UNCHANGED <<retries, invalidRequestCount, invalidRequestResetTime>>

\* acquire() has returned: request() builds the call and issues fetch
RestSend(c) ==
    /\ req[c].pc = "acquire"
    /\ acq[c].pc = "done"
    /\ acq' = [acq EXCEPT ![c] = IdleCall]
    /\ req' = [req EXCEPT ![c].pc = "fetch", ![c].calls = @ + 1]
    /\ UNCHANGED <<now, globalReset, buckets, bucketKeys, locks, quota, observed,
                   retries, invalidRequestCount, invalidRequestResetTime>>

\* handleRateLimit(), lines 521-538: global reset, second update, throw
RateLimitTail(c, r, q) ==
    LET retryAfter == IF r.json THEN r.retryAfter
                      ELSE IF r.retryAfterHeader # 0 THEN r.retryAfterHeader ELSE 1
        global == IF r.json THEN r.global
                  ELSE IF r.rl # NoData THEN r.rlGlobal ELSE FALSE
    IN  /\ globalReset' = IF global THEN now + retryAfter * 1000 ELSE globalReset
        /\ buckets' = IF r.rl # NoData THEN UpdateBuckets(buckets, q.key, r.rl) ELSE buckets
        /\ bucketKeys' = IF r.rl # NoData THEN UpdateBucketKeys(bucketKeys, q.key, r.rl)
                         ELSE bucketKeys
        /\ quota' = IF r.rl # NoData THEN With(quota, UpdateTarget(q.key, r.rl), r.rl.remaining)
                    ELSE quota
        /\ observed' = IF r.rl # NoData THEN Observe(observed, q.key, r.rl) ELSE observed
        /\ req' = [req EXCEPT ![c] = Caught(q, "RateLimitError", 429, retryAfter)]

\* fetch resolved: lines 186-233 and the catch block
RestResponse(c, r) ==
    /\ req[c].pc = "fetch"
    /\ WellFormed(r)
    /\ LET q == [req[c] EXCEPT !.n429 = IF r.status = 429 THEN @ + 1 ELSE @]
           tracked == \/ r.status = 429 /\ ParsedScope(r) # "shared"
                      \/ r.status \in {401, 403}
       IN  /\ invalidRequestCount' = IF tracked THEN TrackedCount ELSE invalidRequestCount
           /\ invalidRequestResetTime' =
                 IF tracked THEN TrackedResetTime ELSE invalidRequestResetTime
           /\ IF r.status = 429 /\ ~r.json
              THEN RateLimitTail(c, r, q)
              ELSE /\ buckets' = IF r.rl # NoData THEN UpdateBuckets(buckets, q.key, r.rl)
                                 ELSE buckets
                   /\ bucketKeys' = IF r.rl # NoData
                                    THEN UpdateBucketKeys(bucketKeys, q.key, r.rl)
                                    ELSE bucketKeys
                   /\ quota' = IF r.rl # NoData
                               THEN With(quota, UpdateTarget(q.key, r.rl), r.rl.remaining)
                               ELSE quota
                   /\ observed' = IF r.rl # NoData THEN Observe(observed, q.key, r.rl)
                                  ELSE observed
                   /\ globalReset' = globalReset
                   /\ req' = [req EXCEPT ![c] =
                        IF r.status = 429 THEN [q EXCEPT !.pc = "rlBody", !.pend = r]
                        ELSE IF r.status = 204 THEN [q EXCEPT !.pc = "returned", !.outcome = "ok"]
                        ELSE IF ~r.json THEN Caught(q, "CloudflareError", r.status, 0)
                        ELSE IF ~r.parses THEN Rejected(q, "SyntaxError")
                        ELSE IF r.status >= 300 THEN Caught(q, "RESTError", r.status, 0)
                        ELSE [q EXCEPT !.pc = "returned", !.outcome = "ok"]]
    /\ UNCHANGED <<now, locks, acq, retries>>

\* handleRateLimit() after `await response.json()`
RestRateLimitBody(c) ==
    /\ req[c].pc = "rlBody"
    /\ IF req[c].pend.parses
       THEN RateLimitTail(c, req[c].pend, req[c])
       ELSE /\ req' = [req EXCEPT ![c] = Rejected(req[c], "SyntaxError")]
            /\ UNCHANGED <<globalReset, buckets, bucketKeys, quota, observed>>
    /\ UNCHANGED <<now, locks, acq, retries, invalidRequestCount, invalidRequestResetTime>>

\* the request timer aborted fetch: AbortError in the catch block, which
\* calls request(retryCount + 1) at once or throws TimeoutError
RestTimeout(c) ==
    /\ req[c].pc = "fetch"
    /\ IF ShouldRetry("AbortError", 0, req[c].retryCount)
       THEN /\ req' = [req EXCEPT ![c].pc = "acquire", ![c].retryCount = @ + 1,
                                  ![c].cause = "AbortError"]
            /\ AcquireStart(c, req[c].key)
       ELSE /\ req' = [req EXCEPT ![c].pc = "failed", ![c].cause = "AbortError",
                                  ![c].outcome = Thrown("AbortError")]
            /\ UNCHANGED bmVars
    /\ UNCHANGED <<retries, invalidRequestCount, invalidRequestResetTime>>

\* Bun.sleep in the catch block is over: request(retryCount + 1)
RestRetry(c) ==
    /\ req[c].pc = "retrySleep"
    /\ now >= req[c].wakeAt
    /\ req' = [req EXCEPT ![c].pc = "acquire", ![c].retryCount = @ + 1]
    /\ AcquireStart(c, req[c].key)
    /\ UNCHANGED <<retries, invalidRequestCount, invalidRequestResetTime>>

\* ------------------------------------------- gateway shards: environment
\* One shard object runs against sockets and timers.  Both implementations
\* (class Gateway, createShard) are modelled, one per specification.  Time
\* is counted in ticks of TickMs: a timer armed for d ms is due after
\* ceil(d / TickMs) ticks, and the clock does not pass a due timer.

NoTimer == "none"
LiveTimer == "live"
Null == "null"
NoSeq == 0
Seqs == 1..MaxSeq
SessionIds == {"s1"}
ResumeUrls == {"wss://resume"}
HelloIntervals == {7500}
InvalidSessionDelays == {1000}
ServerCloseCodes == {1000, 4004, 4006}
HEARTBEAT_TIMEOUT == 15000
TickMs == HEARTBEAT_TIMEOUT \div 2
GwMaxReconnectAttempts == 5
ShMaxReconnectAttempts == 5
NON_RECONNECTABLE_CLOSE_CODES == {4004, 4010, 4011, 4012, 4013, 4014}
RESUMABLE_CLOSE_CODES == {4000, 4001, 4002, 4003, 4005, 4007, 4008, 4009}
NON_RESUMABLE_CLOSE_CODES == {4004, 4010, 4011, 4012, 4013, 4014}

Ticks(ms) == (ms + TickMs - 1) \div TickMs

\* The heartbeat timers run against the clock.  A reconnect or
\* invalid-session timer runs at any moment after it is set: its delay does
\* not order it against the other events.
Clocked == {"hbFirst", "hbInterval", "hbTimeout"}
Jitters(interval) == {interval \div 2}
Smaller(a, b) == IF a <= b THEN a ELSE b

\* A WebSocket object: readyState, what the server last did or was sent on
\* the connection, the heartbeats it has not acked, and the code of the
\* close the shard began.
NoSock == [rs |-> "null", srv |-> "new", hb |-> 0, code |-> 0]
NoEvent ==
    [type |-> "none", what |-> "none", code |-> 0, cur |-> TRUE, err |-> "none", ms |-> 0,
     s |-> NoSeq, url |-> "none"]
Alive(sock) == sock.rs \in {"CONNECTING", "OPEN", "CLOSING"}

\* The fields of the shard object as constructed; status is set by Init.
\* ws is the socket object itself.  A timer field tells whether it names a
\* live timer: an id of a timer that has fired or was cleared acts as null
\* wherever the code reads it (it is only tested and cleared).
NewShard(st) ==
    [status |-> st, sessionId |-> Null, resumeUrl |-> Null, sequence |-> NoSeq,
     ws |-> NoSock, heartbeatInterval |-> NoTimer, heartbeatTimeout |-> NoTimer,
     reconnectTimeout |-> NoTimer, heartbeatAckReceived |-> TRUE,
     reconnectAttempts |-> 0]

\* A handler works on the record w of everything it can change: the shard's
\* fields g, the sockets it no longer holds, the timers, the payloads it has
\* sent, the error it has thrown or emitted, the delay of the timer it has
\* set last and the URL it has opened a socket on ("gateway" for the
\* configured gateway URL, "resume" for the stored resume URL).
World ==
    [g |-> shard, orphans |-> orphans, timers |-> timers, sent |-> <<>>,
     err |-> "none", ms |-> 0, ovf |-> FALSE, url |-> "none"]

SetG(w, f, v) == [w EXCEPT !.g[f] = v]

HeldBy(ts, var) == SetToBag({t \in BagToSet(ts) : t.held = var})

\* setTimeout / setInterval, the id assigned to the field var (or dropped,
\* var = NoTimer).  The timer var named before stays live, unreferenced.
SetTimer(w, kind, ms, every, var) ==
    LET t == [kind |-> kind, left |-> IF kind \in Clocked THEN Ticks(ms) ELSE 0,
              every |-> every, held |-> var]
        was == HeldBy(w.timers, var)
        loose == SetToBag({[u EXCEPT !.held = NoTimer] : u \in BagToSet(was)})
        ts == IF var = NoTimer THEN w.timers ELSE (w.timers (-) was) (+) loose
        w1 == [w EXCEPT !.timers = ts (+) SetToBag({t}),
                        !.ms = ms,
                        !.ovf = @ \/ BagCardinality(ts) >= MaxTimers] IN
    IF var = NoTimer THEN w1 ELSE SetG(w1, var, LiveTimer)

\* clearTimeout / clearInterval of the id in the field var: no effect when
\* the id names no live timer.
ClearTimer(w, var) == [w EXCEPT !.timers = @ (-) HeldBy(@, var)]

\* A one-shot timer that has fired is gone, and the field that held its id
\* names no live timer any more.
Expire(w, t) ==
    LET w1 == [w EXCEPT !.timers = @ (-) SetToBag({t})] IN
    IF t.held = NoTimer THEN w1 ELSE SetG(w1, t.held, NoTimer)

\* this.ws = null / ws = null: the socket object lives on, with the shard's
\* handlers bound, until it has closed.
DropSocket(w) ==
    [w EXCEPT !.orphans = IF Alive(w.g.ws) THEN @ (+) SetToBag({w.g.ws}) ELSE @,
              !.g.ws = NoSock]

\* ws = new WebSocket(url): a socket in CONNECTING.
NewSocket(w) ==
    LET w1 == DropSocket(w) IN
    [w1 EXCEPT !.g.ws = [NoSock EXCEPT !.rs = "CONNECTING"],
               !.ovf = @ \/ BagCardinality(w1.orphans) >= MaxSockets]

\* ws.close(code): an open socket starts the closing handshake and its close
\* event carries the code; a connecting socket fails with 1006; a closing or
\* closed socket is left as it is.
CloseSocket(w, code) ==
    IF w.g.ws.rs = "OPEN" THEN SetG(w, "ws", [NoSock EXCEPT !.rs = "CLOSING", !.code = code])
    ELSE IF w.g.ws.rs = "CONNECTING" THEN SetG(w, "ws", [NoSock EXCEPT !.rs = "CLOSING", !.code = 1006])
    ELSE w

\* ws.send(payload): the payload reaches the server, which then owes an
\* answer to Identify or Resume and an ack to Heartbeat.
Transmit(w, op, d) ==
    [w EXCEPT !.sent = Append(@, [op |-> op, d |-> d]),
              !.g.ws.srv = IF op = "Identify" THEN "identify"
                           ELSE IF op = "Resume" THEN "resume" ELSE @,
              !.g.ws.hb = IF op = "Heartbeat" THEN Smaller(@ + 1, MaxTimers) ELSE @]

IsOpen(w) == w.g.ws.rs = "OPEN"

\* --------------------------------------------------------- class Gateway
GwSend(w, op, d) ==
    IF ~IsOpen(w) THEN [w EXCEPT !.err = "WebSocket is not connected"]
    ELSE Transmit(w, op, d)

GwIdentify(w) == GwSend(SetG(w, "status", "Identifying"), "Identify", NoSeq)

GwResume(w) ==
    IF w.g.sessionId = Null \/ w.g.sequence = NoSeq THEN GwIdentify(w)
    ELSE GwSend(SetG(w, "status", "Resuming"), "Resume", w.g.sequence)

GwStopHeartbeat(w) ==
    LET w1 == IF w.g.heartbeatTimeout # NoTimer
              THEN SetG(ClearTimer(w, "heartbeatTimeout"), "heartbeatTimeout", NoTimer)
              ELSE w IN
    IF w1.g.heartbeatInterval # NoTimer
    THEN SetG(ClearTimer(w1, "heartbeatInterval"), "heartbeatInterval", NoTimer)
    ELSE w1

GwCleanup(w) ==
    LET w1 == GwStopHeartbeat(w) IN
    IF w1.g.reconnectTimeout # NoTimer
    THEN SetG(ClearTimer(w1, "reconnectTimeout"), "reconnectTimeout", NoTimer)
    ELSE w1

\* Variant: reconnect() forgets the session.
GwReconnectFresh(w) ==
    LET w1 == GwCleanup(w)
        w2 == IF w1.g.ws # NoSock THEN DropSocket(CloseSocket(w1, 4000)) ELSE w1 IN
    [NewSocket([w2 EXCEPT !.g.status = "Connecting", !.g.sessionId = Null])
        EXCEPT !.url = IF w.g.resumeUrl # Null THEN "resume" ELSE "gateway"]

GwReconnect(w) ==
    LET w1 == GwCleanup(w)
        w2 == IF w1.g.ws # NoSock THEN DropSocket(CloseSocket(w1, 4000)) ELSE w1 IN
    [NewSocket(SetG(w2, "status", "Connecting"))
        EXCEPT !.url = IF w.g.resumeUrl # Null THEN "resume" ELSE "gateway"]

GwSendHeartbeat(w) ==
    IF ~IsOpen(w) THEN w
    ELSE IF ~w.g.heartbeatAckReceived THEN GwReconnect(w)
    ELSE GwSend(SetG(w, "heartbeatAckReceived", FALSE), "Heartbeat", w.g.sequence)

GwStartHeartbeat(w, interval, jitterMs) ==
    SetTimer(GwStopHeartbeat(w), "hbFirst", jitterMs, interval, "heartbeatTimeout")

\* The callback of startHeartbeat's setTimeout.
GwFirstHeartbeat(w, interval) ==
    LET w1 == SetG(w, "heartbeatTimeout", NoTimer) IN
    IF ~IsOpen(w1) THEN w1
    ELSE SetTimer(GwSendHeartbeat(w1), "hbInterval", interval, interval, "heartbeatInterval")

GwScheduleReconnect(w) ==
    IF w.g.reconnectAttempts >= GwMaxReconnectAttempts
    THEN [w EXCEPT !.err = "Max reconnect attempts reached"]
    ELSE LET delay == Smaller(1000 * 2 ^ w.g.reconnectAttempts, 30000) IN
         SetTimer(SetG(w, "reconnectAttempts", w.g.reconnectAttempts + 1),
                  "reconnect", delay, 0, "reconnectTimeout")

GwHandleClose(w, code) ==
    LET w1 == GwCleanup(w) IN
    IF code \in NON_RECONNECTABLE_CLOSE_CODES
    THEN [SetG(w1, "status", "Idle") EXCEPT !.err = "Gateway closed with non-reconnectable code"]
    ELSE GwScheduleReconnect(SetG(w1, "status", "Disconnected"))

GwHandleHello(w, interval, jitterMs) ==
    LET w1 == GwStartHeartbeat(w, interval, jitterMs) IN
    IF w1.g.sessionId # Null /\ w1.g.sequence # NoSeq THEN GwResume(w1) ELSE GwIdentify(w1)

\* Variant: a session that cannot be resumed is kept.
GwHandleInvalidSessionKeeps(w, resumable, delay) ==
    IF resumable THEN SetTimer(w, "invResume", delay, 0, NoTimer)
    ELSE SetTimer(w, "invIdentify", delay, 0, NoTimer)

GwHandleInvalidSession(w, resumable, delay) ==
    IF resumable THEN SetTimer(w, "invResume", delay, 0, NoTimer)
    ELSE SetTimer([w EXCEPT !.g.sessionId = Null, !.g.sequence = NoSeq],
                  "invIdentify", delay, 0, NoTimer)

GwHandleHeartbeatAck(w) == SetG(w, "heartbeatAckReceived", TRUE)

GwHandleDispatch(w, t, d) ==
    IF t = "READY"
    THEN [w EXCEPT !.g.sessionId = d.session_id,
                   !.g.resumeUrl = d.resume_gateway_url,
                   !.g.reconnectAttempts = 0,
                   !.g.status = "Ready"]
    ELSE IF t = "RESUMED"
    THEN [w EXCEPT !.g.reconnectAttempts = 0, !.g.status = "Ready"]
    ELSE w

\* Variant: only a Dispatch stores its sequence number.
GwHandleMessageDispatchOnly(w, m, rnd) ==
    LET w1 == IF m.s # NoSeq /\ m.op = "Dispatch" THEN SetG(w, "sequence", m.s) ELSE w IN
    CASE m.op = "Dispatch" -> GwHandleDispatch(w1, m.t, m.d)
      [] m.op = "Heartbeat" -> GwSendHeartbeat(w1)
      [] m.op = "Reconnect" -> GwReconnect(w1)
      [] m.op = "InvalidSession" -> GwHandleInvalidSession(w1, m.d, rnd)
      [] m.op = "Hello" -> GwHandleHello(w1, m.d, rnd)
      [] m.op = "HeartbeatAck" -> GwHandleHeartbeatAck(w1)
      [] OTHER -> w1

\* rnd is what Math.random() yields in the handler, as a delay in ms.
GwHandleMessage(w, m, rnd) ==
    LET w1 == IF m.s # NoSeq THEN SetG(w, "sequence", m.s) ELSE w IN
    CASE m.op = "Dispatch" -> GwHandleDispatch(w1, m.t, m.d)
      [] m.op = "Heartbeat" -> GwSendHeartbeat(w1)
      [] m.op = "Reconnect" -> GwReconnect(w1)
      [] m.op = "InvalidSession" -> GwHandleInvalidSession(w1, m.d, rnd)
      [] m.op = "Hello" -> GwHandleHello(w1, m.d, rnd)
      [] m.op = "HeartbeatAck" -> GwHandleHeartbeatAck(w1)
      [] OTHER -> w1

GwConnect(w) == [NewSocket(SetG(w, "status", "Connecting")) EXCEPT !.url = "gateway"]

GwDisconnect(w) ==
    LET w1 == GwCleanup(w)
        w2 == IF IsOpen(w1) THEN CloseSocket(w1, 1000) ELSE w1 IN
    [w2 EXCEPT !.g.status = "Idle", !.g.sessionId = Null,
               !.g.resumeUrl = Null, !.g.sequence = NoSeq]

GwTimer(w, t) ==
    CASE t.kind = "hbFirst" -> GwFirstHeartbeat(w, t.every)
      [] t.kind = "hbInterval" -> GwSendHeartbeat(w)
      [] t.kind = "reconnect" -> GwReconnect(w)
      [] t.kind = "invResume" -> GwResume(w)
      [] t.kind = "invIdentify" -> GwIdentify(w)
      [] OTHER -> w

\* ------------------------------------------------------------ createShard
ShSendPayload(w, op, d) == IF ~IsOpen(w) THEN w ELSE Transmit(w, op, d)

ShIdentify(w) == ShSendPayload(SetG(w, "status", "identifying"), "Identify", NoSeq)

ShResume(w) ==
    IF w.g.sessionId = Null \/ w.g.sequence = NoSeq THEN ShIdentify(w)
    ELSE ShSendPayload(SetG(w, "status", "resuming"), "Resume", w.g.sequence)

ShHeartbeat(w) ==
    IF ~IsOpen(w) THEN w
    ELSE SetTimer(ShSendPayload(w, "Heartbeat", w.g.sequence),
                  "hbTimeout", HEARTBEAT_TIMEOUT, 0, "heartbeatTimeout")

\* The callback of heartbeat's setTimeout.
ShHeartbeatTimeout(w) ==
    IF w.g.ws # NoSock THEN CloseSocket(w, 4000) ELSE w

ShStartHeartbeat(w, interval, jitterMs) ==
    LET w1 == IF w.g.heartbeatInterval # NoTimer
              THEN SetG(ClearTimer(w, "heartbeatInterval"), "heartbeatInterval", NoTimer)
              ELSE w IN
    SetTimer(w1, "hbFirst", jitterMs, interval, NoTimer)

\* The callback of startHeartbeat's setTimeout.
ShFirstHeartbeat(w, interval) ==
    SetTimer(ShHeartbeat(w), "hbInterval", interval, interval, "heartbeatInterval")

ShStopHeartbeat(w) ==
    LET w1 == IF w.g.heartbeatInterval # NoTimer
              THEN SetG(ClearTimer(w, "heartbeatInterval"), "heartbeatInterval", NoTimer)
              ELSE w IN
    IF w1.g.heartbeatTimeout # NoTimer
    THEN SetG(ClearTimer(w1, "heartbeatTimeout"), "heartbeatTimeout", NoTimer)
    ELSE w1

ShHandleDispatch(w, t, d) ==
    IF t = "READY"
    THEN [w EXCEPT !.g.sessionId = d.session_id,
                   !.g.resumeUrl = d.resume_gateway_url,
                   !.g.status = "ready",
                   !.g.reconnectAttempts = 0]
    ELSE IF t = "RESUMED"
    THEN [w EXCEPT !.g.status = "ready", !.g.reconnectAttempts = 0]
    ELSE w

ShHandleMessage(w, m, rnd) ==
    LET w1 == IF m.s # NoSeq THEN SetG(w, "sequence", m.s) ELSE w IN
    CASE m.op = "Dispatch" -> ShHandleDispatch(w1, m.t, m.d)
      [] m.op = "Heartbeat" -> ShHeartbeat(w1)
      [] m.op = "Reconnect" -> CloseSocket(w1, 4000)
      [] m.op = "InvalidSession" ->
            IF m.d THEN SetTimer(w1, "invResume", rnd, 0, NoTimer)
            ELSE SetTimer([w1 EXCEPT !.g.sessionId = Null, !.g.sequence = NoSeq],
                          "invIdentify", rnd, 0, NoTimer)
      [] m.op = "Hello" ->
            LET w2 == ShStartHeartbeat(w1, m.d, rnd) IN
            IF w2.g.sessionId # Null /\ w2.g.sequence # NoSeq THEN ShResume(w2) ELSE ShIdentify(w2)
      [] m.op = "HeartbeatAck" ->
            IF w1.g.heartbeatTimeout # NoTimer
            THEN SetG(ClearTimer(w1, "heartbeatTimeout"), "heartbeatTimeout", NoTimer)
            ELSE w1
      [] OTHER -> w1

ShHandleClose(w, code) ==
    LET w1 == SetG(ShStopHeartbeat(w), "status", "disconnected") IN
    IF code \in NON_RESUMABLE_CLOSE_CODES
    THEN [w1 EXCEPT !.g.sessionId = Null, !.g.sequence = NoSeq, !.g.resumeUrl = Null]
    ELSE IF code \in RESUMABLE_CLOSE_CODES \/ code = 1006 \/ code < 4000
    THEN IF w1.g.reconnectAttempts < ShMaxReconnectAttempts
         THEN LET n == w1.g.reconnectAttempts + 1 IN
              SetTimer(SetG(w1, "reconnectAttempts", n), "reconnect",
                       Smaller(1000 * 2 ^ n, 30000), 0, NoTimer)
         ELSE w1
    ELSE w1

ShConnect(w, isResume) ==
    LET w1 == IF w.g.ws # NoSock THEN DropSocket(CloseSocket(w, 1000)) ELSE w IN
    [NewSocket(SetG(w1, "status", IF isResume THEN "reconnecting" ELSE "connecting"))
        EXCEPT !.url = IF isResume /\ w.g.resumeUrl # Null THEN "resume" ELSE "gateway"]

ShDisconnect(w, code) ==
    LET w1 == ShStopHeartbeat(w)
        w2 == IF w1.g.ws # NoSock THEN DropSocket(CloseSocket(w1, code)) ELSE w1 IN
    SetG(w2, "status", "disconnected")

ShTimer(w, t) ==
    CASE t.kind = "hbFirst" -> ShFirstHeartbeat(w, t.every)
      [] t.kind = "hbInterval" -> ShHeartbeat(w)
      [] t.kind = "hbTimeout" -> ShHeartbeatTimeout(w)
      [] t.kind = "reconnect" -> ShConnect(w, TRUE)
      [] t.kind = "invResume" -> ShResume(w)
      [] t.kind = "invIdentify" -> ShIdentify(w)
      [] OTHER -> w

\* ------------------------------------------------ gateway shards: actions
\* What the server may send on a connection: Hello once, first; READY after
\* Identify; RESUMED after Resume; events once ready; an ack per heartbeat.
MayServerSend(sock, m) ==
    CASE m.op = "Hello" -> sock.srv = "new"
      [] m.op = "Dispatch" ->
            IF m.t = "READY" THEN sock.srv = "identify"
            ELSE IF m.t = "RESUMED" THEN sock.srv = "resume"
            ELSE sock.srv = "ready"
      [] m.op = "InvalidSession" -> sock.srv \in {"identify", "resume", "ready"}
      [] m.op = "HeartbeatAck" -> sock.hb > 0
      [] OTHER -> sock.srv # "new"

ServerSent(sock, m) ==
    CASE m.op = "Hello" -> [sock EXCEPT !.srv = "hello"]
      [] m.op = "Dispatch" -> [sock EXCEPT !.srv = "ready"]
      [] m.op = "InvalidSession" -> [sock EXCEPT !.srv = "hello"]
      [] m.op = "HeartbeatAck" -> [sock EXCEPT !.hb = @ - 1]
      [] OTHER -> sock

Msg(op, s, t, d) == [op |-> op, s |-> s, t |-> t, d |-> d]

Event(type, what, code, cur) ==
    [NoEvent EXCEPT !.type = type, !.what = what, !.code = code, !.cur = cur]

\* The sockets whose events can reach the shard's handlers: the one it holds
\* and the ones it has let go of.
Targets ==
    {[cur |-> TRUE, sock |-> shard.ws]} \cup
    {[cur |-> FALSE, sock |-> o] : o \in BagToSet(orphans)}

\* The socket of an event moves on to the state rec.
PutSocket(w, tg, rec) ==
    IF tg.cur THEN SetG(w, "ws", rec)
    ELSE [w EXCEPT !.orphans = (@ (-) SetToBag({tg.sock})) (+)
                                (IF Alive(rec) THEN SetToBag({rec}) ELSE EmptyBag)]

\* The handler's effects become the next state; a handler that would need
\* more sockets or timers than the bounds allow is not taken.
Commit(w, e) ==
    /\ ~w.ovf
    /\ shard' = w.g
    /\ orphans' = w.orphans
    /\ timers' = w.timers
    /\ sent' = w.sent
    /\ ev' = [e EXCEPT !.err = w.err, !.ms = w.ms, !.url = w.url]
    /\ impl' = impl

\* Gateway.connect(), by the application.
GatewayConnect ==
    /\ impl = "Gateway"
    /\ shard.status \in {"Idle", "Disconnected"}
    /\ Commit(GwConnect(World), Event("connect", "connect", 0, TRUE))
    /\ hold' = "none"

\* Gateway.disconnect(), by the application.
GatewayDisconnect ==
    /\ impl = "Gateway"
    /\ hold \in {"none", "fatal"}
    /\ Commit(GwDisconnect(World), Event("disconnect", "disconnect", 0, TRUE))
    /\ hold' = "disconnect"

\* shard.connect(), by the application or the orchestrator.
ShardConnect ==
    /\ impl = "Shard"
    /\ shard.status = "disconnected"
    /\ Commit(ShConnect(World, FALSE), Event("connect", "connect", 0, TRUE))
    /\ hold' = "none"

\* shard.disconnect(), by the application or the orchestrator.
ShardDisconnect ==
    /\ impl = "Shard"
    /\ hold \in {"none", "fatal"}
    /\ Commit(ShDisconnect(World, 1000), Event("disconnect", "disconnect", 0, TRUE))
    /\ hold' = "disconnect"

\* ws.onopen
SocketOpens(tg) ==
    /\ tg.sock.rs = "CONNECTING"
    /\ Commit(PutSocket(World, tg, [tg.sock EXCEPT !.rs = "OPEN"]),
              Event("open", "open", 0, tg.cur))
    /\ hold' = hold

\* ws.onmessage
Delivers(tg, m, rnd) ==
    /\ tg.sock.rs = "OPEN"
    /\ MayServerSend(tg.sock, m)
    /\ LET w == PutSocket(World, tg, ServerSent(tg.sock, m)) IN
       Commit(IF impl = "Gateway" THEN GwHandleMessage(w, m, rnd)
                                  ELSE ShHandleMessage(w, m, rnd),
              [Event("message", IF m.op = "Dispatch" THEN m.t ELSE m.op, 0, tg.cur)
                  EXCEPT !.s = m.s])
    /\ hold' = hold

\* ws.onclose: the end of a close the shard began, a close by the server, or
\* a connection that failed.
SocketCloses(tg, code) ==
    /\ \/ tg.sock.rs = "CLOSING" /\ code = tg.sock.code
       \/ tg.sock.rs = "OPEN" /\ code \in ServerCloseCodes
       \/ tg.sock.rs = "CONNECTING" /\ code = 1006
    /\ LET w == PutSocket(World, tg, [NoSock EXCEPT !.rs = "CLOSED"]) IN
       Commit(IF impl = "Gateway" THEN GwHandleClose(w, code) ELSE ShHandleClose(w, code),
              Event("close", "close", code, tg.cur))
    /\ hold' = IF code \in NON_RESUMABLE_CLOSE_CODES /\ tg.cur /\ hold = "none"
               THEN "fatal" ELSE hold

\* A due timer runs its callback; an interval is armed again first.
TimerFires(t) ==
    /\ t.left = 0
    /\ LET w == IF t.kind = "hbInterval"
                THEN [World EXCEPT !.timers = (@ (-) SetToBag({t})) (+)
                                              SetToBag({[t EXCEPT !.left = Ticks(t.every)]})]
                ELSE Expire(World, t) IN
       Commit(IF impl = "Gateway" THEN GwTimer(w, t) ELSE ShTimer(w, t),
              Event("timer", t.kind, 0, TRUE))
    /\ hold' = hold

Elapse(t) == IF t.kind \in Clocked THEN [t EXCEPT !.left = @ - 1] ELSE t

\* TickMs pass; no timer is overdue.
Advance ==
    /\ \E t \in BagToSet(timers) : t.kind \in Clocked
    /\ \A t \in BagToSet(timers) : t.kind \in Clocked => t.left > 0
    /\ timers' = BagOfAll(Elapse, timers)
    /\ ev' = Event("tick", "tick", 0, TRUE)
    /\ sent' = <<>>
    /\ UNCHANGED <<impl, shard, orphans, hold>>

InitGw(i) ==
    /\ impl = i
    /\ shard = NewShard(IF impl = "Gateway" THEN "Idle" ELSE "disconnected")
    /\ orphans = EmptyBag
    /\ timers = EmptyBag
    /\ ev = NoEvent
    /\ sent = <<>>
    /\ hold = "init"

\* ------------------------------------------- createGateway (orchestrator)
\* Shard ids start at 0.  options.shards is "auto" (or undefined) or the
\* pair [shard_id, num_shards] that validateOptions accepts.
ShardIdSet == 0..(MaxShards - 1)

AutoShards == [auto |-> TRUE, id |-> 0, total |-> 1]

ShardsOptions ==
    {AutoShards} \cup
    {o \in [auto : {FALSE}, id : ShardIdSet, total : 1..MaxShards] : o.id < o.total}

\* The fields of GET /gateway/bot that connect() reads.
GatewayBotInfos == [shards : 1..MaxShards, max_concurrency : 1..MaxConcurrency]

IdsUpTo(n) == [i \in 1..n |-> i - 1]

Range(s) == {s[i] : i \in 1..Len(s)}

\* The buckets array of spawnShards: entry key + 1 holds the ids with
\* id % maxConcurrency = key in the order of shardIds; <<>> is a hole.
SpawnBuckets(ids, m) ==
    LET keys == {id % m : id \in Range(ids)}
        last == CHOOSE k \in keys : \A j \in keys : j <= k
    IN  [k \in 1..(last + 1) |->
            LET InBucket(id) == id % m = k - 1 IN SelectSeq(ids, InBucket)]

\* The next bucket of the loop at or after index at (0: the loop has ended).
NextBucketAt(bs, at) ==
    LET rest == {i \in at..Len(bs) : bs[i] # <<>>}
    IN  IF rest = {} THEN 0 ELSE CHOOSE i \in rest : \A j \in rest : i <= j

\* The delay of Bun.sleep between two buckets, in ms.
SPAWN_DELAY == 5000

\* ms is the delay of the sleep spawnShards is in, 0 when it is in none.
SpawnOver(pc) == [pc |-> pc, buckets |-> <<>>, at |-> 0, ms |-> 0]

\* spawnShards' loop from index at up to its next await: the shards of the
\* next bucket are created, put in the map and start to connect together.
RunBuckets(bs, at, wv) ==
    LET i == NextBucketAt(bs, at) IN
    IF i = 0
    THEN /\ spawn' = SpawnOver("done")
         /\ waves' = wv
         /\ UNCHANGED <<shards, attempt>>
    ELSE /\ spawn' = [pc |-> "awaiting", buckets |-> bs, at |-> i, ms |-> 0]
         /\ shards' = shards \cup Range(bs[i])
         /\ attempt' = [id \in ShardIdSet |->
                           IF id \in Range(bs[i]) THEN "connecting" ELSE attempt[id]]
         /\ waves' = wv + 1

SpawnShards(ids, m) == RunBuckets(SpawnBuckets(ids, m), 1, 0)

InFlight(id) == attempt[id] \in {"connecting", "closing"}

\* connect().  One spawnShards() call is followed at a time: connect() is
\* called again once the attempts of the previous call have settled.
OrchConnect ==
    /\ spawn.pc \in {"idle", "done", "failed"}
    /\ \A id \in ShardIdSet : ~InFlight(id)
    /\ IF options.auto
       THEN /\ spawn' = SpawnOver("discovering")
            /\ UNCHANGED <<shardCount, shardIds, maxConcurrency, shards, attempt, waves>>
       ELSE /\ shardIds' = <<options.id>>
            /\ shardCount' = options.total
            /\ UNCHANGED maxConcurrency
            /\ SpawnShards(shardIds', maxConcurrency)
    /\ UNCHANGED <<options, cmd>>

\* rest.get("/gateway/bot") resolves.
Discovered(info) ==
    /\ spawn.pc = "discovering"
    /\ shardCount' = info.shards
    /\ maxConcurrency' = info.max_concurrency
    /\ shardIds' = IdsUpTo(info.shards)
    /\ SpawnShards(shardIds', maxConcurrency')
    /\ UNCHANGED <<options, cmd>>

\* rest.get("/gateway/bot") rejects, and connect() with it.
DiscoveryFails ==
    /\ spawn.pc = "discovering"
    /\ spawn' = SpawnOver("failed")
    /\ UNCHANGED <<options, shardCount, shardIds, maxConcurrency, shards, attempt, waves, cmd>>

Awaited == IF spawn.pc = "awaiting" THEN Range(spawn.buckets[spawn.at]) ELSE {}

\* Variant: the bucket is awaited with Promise.race, the first shard to
\* open ends the wait.
ShardOpensFirst(id) ==
    /\ attempt[id] = "connecting"
    /\ attempt' = [attempt EXCEPT ![id] = "open"]
    /\ spawn' = IF id \in Awaited
                THEN IF spawn.at # Len(spawn.buckets)
                     THEN [spawn EXCEPT !.pc = "sleeping", !.ms = SPAWN_DELAY]
                     ELSE SpawnOver("done")
                ELSE spawn
    /\ UNCHANGED <<options, shardCount, shardIds, maxConcurrency, shards, waves, cmd>>

\* The socket of shard id opens: its connect() resolves.  When it is the
\* last of the bucket awaited, Promise.all resolves and spawnShards sleeps,
\* or ends after the last bucket.
ShardOpens(id) ==
    /\ attempt[id] = "connecting"
    /\ attempt' = [attempt EXCEPT ![id] = "open"]
    /\ spawn' = IF id \in Awaited /\ \A o \in Awaited : attempt'[o] = "open"
                THEN IF spawn.at # Len(spawn.buckets)
                     THEN [spawn EXCEPT !.pc = "sleeping", !.ms = SPAWN_DELAY]
                     ELSE SpawnOver("done")
                ELSE spawn
    /\ UNCHANGED <<options, shardCount, shardIds, maxConcurrency, shards, waves, cmd>>

\* The socket of shard id errors before it opens: its connect() rejects,
\* and with it Promise.all, spawnShards and connect().
ShardErrors(id) ==
    /\ InFlight(id)
    /\ attempt' = [attempt EXCEPT ![id] = "failed"]
    /\ spawn' = IF id \in Awaited THEN SpawnOver("failed") ELSE spawn
    /\ UNCHANGED <<options, shardCount, shardIds, maxConcurrency, shards, waves, cmd>>

\* Bun.sleep(5000) between two buckets is over.
SleepEnds ==
    /\ spawn.pc = "sleeping"
    /\ RunBuckets(spawn.buckets, spawn.at + 1, waves)
    /\ UNCHANGED <<options, shardCount, shardIds, maxConcurrency, cmd>>

\* disconnect(): every shard of the map is disconnected (its socket is
\* closed, so a pending connect() can only reject), and the map is cleared.
OrchDisconnect ==
    /\ attempt' = [id \in ShardIdSet |->
                      IF id \notin shards THEN attempt[id]
                      ELSE IF attempt[id] = "connecting" THEN "closing"
                      ELSE IF attempt[id] = "open" THEN "closed"
                      ELSE attempt[id]]
    /\ shards' = {}
    /\ UNCHANGED <<options, shardCount, shardIds, maxConcurrency, spawn, waves, cmd>>

\* Guild ids are snowflakes: non-negative integers written in decimal.
GuildIds == {h * 2^22 + l : h \in 0..MaxGuildHigh, l \in {0, 2^22 - 1}}

\* The guild ids the commands name, and the guild_ids arrays of a sound
\* request.
CommandGuilds == {g \in GuildIds : g % 2^22 # 0}

GuildLists ==
    {<<>>} \cup {<<g>> : g \in CommandGuilds} \cup (CommandGuilds \X CommandGuilds)

\* n >> k on a non-negative BigInt: k halvings.
RECURSIVE ShiftRight(_, _)
ShiftRight(n, k) == IF k = 0 THEN n ELSE ShiftRight(n \div 2, k - 1)

\* Variant: the guild id is reduced without the shift.
getShardIdForGuildUnshifted(guildId) == guildId % shardCount

getShardIdForGuild(guildId) == ShiftRight(guildId, 22) % shardCount

\* The shards a command addressed to guildId is handed to: the shard of
\* the map under the guild's shard id, none when the map has no such shard.
getShardForGuild(guildId) ==
    IF getShardIdForGuild(guildId) \in shards THEN {getShardIdForGuild(guildId)} ELSE {}

NoCommand == [op |-> "none", guilds |-> <<>>, to |-> {}]

Routed(op, guilds, to) ==
    /\ cmd' = [op |-> op, guilds |-> guilds, to |-> to]
    /\ UNCHANGED <<options, shardCount, shardIds, maxConcurrency, shards, spawn, attempt, waves>>

UpdatePresence == Routed("PresenceUpdate", <<>>, shards)

UpdateVoiceState(guild_id) ==
    Routed("VoiceStateUpdate", <<guild_id>>, getShardForGuild(guild_id))

RequestGuildMembers(guild_id) ==
    Routed("RequestGuildMembers", <<guild_id>>, getShardForGuild(guild_id))

\* Only guild_ids[0] is looked at; with no guild id nothing is sent.
RequestSoundboardSounds(guild_ids) ==
    IF guild_ids = <<>>
    THEN UNCHANGED orchVars
    ELSE Routed("RequestSoundboardSounds", guild_ids, getShardForGuild(guild_ids[1]))

InitOrch(opts) ==
    /\ options \in opts
    /\ shardCount = 1
    /\ shardIds = <<0>>
    /\ maxConcurrency = 1
    /\ shards = {}
    /\ spawn = SpawnOver("idle")
    /\ attempt = [id \in ShardIdSet |-> "none"]
    /\ waves = 0
    /\ cmd = NoCommand

\* ---------------------------------------------------------- specifications
otherThanBM == <<restVars, gwVars, orchVars, keyVars, countVars>>

otherThanRest == <<gwVars, orchVars, keyVars, countVars>>

otherThanGw == <<bmVars, restVars, orchVars, keyVars, countVars>>

otherThanShard == <<bmVars, restVars, orchVars, keyVars>>

\* The shard of a specification that runs no shard: as constructed.
InitGwOff == InitGw("Gateway")

\* The orchestrator of a specification that runs none: as constructed.
InitOrchOff == InitOrch({AutoShards})

\* No key has been asked for, no reconnection made, no warning timer run.
InitKeyOff == routed = NoRoute /\ reconnects = 0 /\ warn = NoWarning /\ hub = NoHub

otherThanOrch == <<bmVars, restVars, gwVars, keyVars, countVars>>

InitBucket ==
    /\ InitBM
    /\ InitRest
    /\ retries = DefaultRetries
    /\ InitGwOff
    /\ InitOrchOff
    /\ InitKeyOff

NextBucket ==
    \/ \E c \in Callers, key \in RouteKeys : AcquireStart(c, key) /\ UNCHANGED otherThanBM
    \/ \E c \in Callers : AcquireWake(c) /\ UNCHANGED otherThanBM
    \/ \E c \in Callers : AcquireAfterSleep(c) /\ UNCHANGED otherThanBM
    \/ \E c \in Callers : AcquireReturn(c) /\ UNCHANGED otherThanBM
    \/ \E key \in RouteKeys, data \in RateLimitData :
          FreshData(data) /\ Update(key, data) /\ UNCHANGED otherThanBM
    \/ \E ra \in RetryAfters : SetGlobalReset(now + ra * 1000) /\ UNCHANGED otherThanBM
    \/ Sweep /\ UNCHANGED otherThanBM
    \/ Tick /\ UNCHANGED otherThanBM

SpecBucket == InitBucket /\ [][NextBucket]_vars

\* The BucketManager over its whole life, destroy() included, fed by
\* responses that carry a bucket id.
NextLifecycle ==
    \/ \E c \in Callers, key \in RouteKeys : AcquireStart(c, key) /\ UNCHANGED otherThanBM
    \/ \E c \in Callers : AcquireWake(c) /\ UNCHANGED otherThanBM
    \/ \E c \in Callers : AcquireAfterSleep(c) /\ UNCHANGED otherThanBM
    \/ \E c \in Callers : AcquireReturn(c) /\ UNCHANGED otherThanBM
    \/ \E key \in RouteKeys, data \in RateLimitData :
          /\ data.bucket # NoBucketHeader
          /\ FreshData(data)
          /\ Update(key, data)
          /\ UNCHANGED otherThanBM
    \/ \E ra \in RetryAfters : SetGlobalReset(now + ra * 1000) /\ UNCHANGED otherThanBM
    \/ Sweep /\ UNCHANGED otherThanBM
    \/ Destroy /\ UNCHANGED otherThanBM
    \/ Tick /\ UNCHANGED otherThanBM

SpecLifecycle == InitBucket /\ [][NextLifecycle]_vars

\* The BucketManager over its whole life with the event loop at work: the
\* continuation of a resolved promise runs, a sleep that is over ends, the
\* caller goes on after acquire() has returned, and the clock moves.  Every
\* delay ends within the time the clock covers.
Resumes(c) == AcquireWake(c) /\ UNCHANGED otherThanBM
SleepIsOver(c) == AcquireAfterSleep(c) /\ UNCHANGED otherThanBM
ClockMoves == Tick /\ UNCHANGED otherThanBM

NextLoop ==
    \/ \E c \in Callers, key \in RouteKeys : AcquireStart(c, key) /\ UNCHANGED otherThanBM
    \/ \E c \in Callers : Resumes(c)
    \/ \E c \in Callers : SleepIsOver(c)
    \/ \E c \in Callers : AcquireReturn(c) /\ UNCHANGED otherThanBM
    \/ \E key \in RouteKeys, data \in RateLimitData :
          /\ data.bucket # NoBucketHeader
          /\ FreshData(data)
          /\ Update(key, data)
          /\ UNCHANGED otherThanBM
    \/ \E ra \in RetryAfters :
          /\ now + ra * 1000 <= MaxSeconds * 1000
          /\ SetGlobalReset(now + ra * 1000)
          /\ UNCHANGED otherThanBM
    \/ Destroy /\ UNCHANGED otherThanBM
    \/ ClockMoves

SpecLoop ==
    /\ InitBucket
    /\ [][NextLoop]_vars
    /\ \A c \in Callers : WF_vars(Resumes(c)) /\ WF_vars(SleepIsOver(c))
    /\ WF_vars(ClockMoves)

\* The BucketManager with no global limit, fed by responses of two server
\* buckets.
LaneBuckets == {"b1", "b2"}

LaneData == [remaining : 0..MaxRemaining, reset : 0..MaxSeconds, bucket : LaneBuckets]

NextLanes ==
    \/ \E c \in Callers, key \in RouteKeys : AcquireStart(c, key) /\ UNCHANGED otherThanBM
    \/ \E c \in Callers : AcquireWake(c) /\ UNCHANGED otherThanBM
    \/ \E c \in Callers : AcquireAfterSleep(c) /\ UNCHANGED otherThanBM
    \/ \E c \in Callers : AcquireReturn(c) /\ UNCHANGED otherThanBM
    \/ \E key \in RouteKeys, data \in LaneData :
          FreshData(data) /\ Update(key, data) /\ UNCHANGED otherThanBM
    \/ Sweep /\ UNCHANGED otherThanBM
    \/ Tick /\ UNCHANGED otherThanBM

SpecLanes == InitBucket /\ [][NextLanes]_vars

InitRestSpec ==
    /\ InitBM
    /\ InitRest
    /\ retries \in 0..MaxRetries
    /\ InitGwOff
    /\ InitOrchOff
    /\ InitKeyOff

NextRest ==
    \/ \E c \in RestCallers, key \in RouteKeys : RestRequest(c, key) /\ UNCHANGED otherThanRest
    \/ \E c \in RestCallers : AcquireAfterSleep(c) /\ UNCHANGED <<restVars, otherThanRest>>
    \/ \E c \in RestCallers : RestSend(c) /\ UNCHANGED otherThanRest
    \/ \E c \in RestCallers, r \in Responses : RestResponse(c, r) /\ UNCHANGED otherThanRest
    \/ \E c \in RestCallers : RestRateLimitBody(c) /\ UNCHANGED otherThanRest
    \/ \E c \in RestCallers : RestTimeout(c) /\ UNCHANGED otherThanRest
    \/ \E c \in RestCallers : RestRetry(c) /\ UNCHANGED otherThanRest
    \/ Sweep /\ UNCHANGED <<restVars, otherThanRest>>
    \/ Tick /\ UNCHANGED <<restVars, otherThanRest>>

SpecRest == InitRestSpec /\ [][NextRest]_vars

\* The socket events, messages and timers of a shard of either kind.
NextWire ==
    \/ \E tg \in Targets : SocketOpens(tg) /\ UNCHANGED otherThanGw
    \/ \E tg \in Targets, i \in HelloIntervals : \E j \in Jitters(i) :
          Delivers(tg, Msg("Hello", NoSeq, Null, i), j) /\ UNCHANGED otherThanGw
    \/ \E tg \in Targets, q \in Seqs, sid \in SessionIds, url \in ResumeUrls :
          Delivers(tg, Msg("Dispatch", q, "READY", [session_id |-> sid, resume_gateway_url |-> url]), 0)
          /\ UNCHANGED otherThanGw
    \/ \E tg \in Targets, q \in Seqs :
          Delivers(tg, Msg("Dispatch", q, "RESUMED", Null), 0) /\ UNCHANGED otherThanGw
    \/ \E tg \in Targets, q \in Seqs :
          Delivers(tg, Msg("Dispatch", q, "MESSAGE_CREATE", Null), 0) /\ UNCHANGED otherThanGw
    \/ \E tg \in Targets :
          Delivers(tg, Msg("Heartbeat", NoSeq, Null, Null), 0) /\ UNCHANGED otherThanGw
    \/ \E tg \in Targets :
          Delivers(tg, Msg("Reconnect", NoSeq, Null, Null), 0) /\ UNCHANGED otherThanGw
    \/ \E tg \in Targets, b \in BOOLEAN, d \in InvalidSessionDelays :
          Delivers(tg, Msg("InvalidSession", NoSeq, Null, b), d) /\ UNCHANGED otherThanGw
    \/ \E tg \in Targets :
          Delivers(tg, Msg("HeartbeatAck", NoSeq, Null, Null), 0) /\ UNCHANGED otherThanGw
    \/ \E tg \in Targets, code \in ServerCloseCodes \cup {1006, 4000} :
          SocketCloses(tg, code) /\ UNCHANGED otherThanGw
    \/ \E t \in BagToSet(timers) : TimerFires(t) /\ UNCHANGED otherThanGw
    \/ Advance /\ UNCHANGED otherThanGw

InitGateway ==
    InitBM /\ InitRest /\ retries = DefaultRetries /\ InitGw("Gateway") /\ InitOrchOff
    /\ InitKeyOff

NextGateway ==
    \/ GatewayConnect /\ UNCHANGED otherThanGw
    \/ GatewayDisconnect /\ UNCHANGED otherThanGw
    \/ NextWire

SpecGateway == InitGateway /\ [][NextGateway]_vars

InitShard ==
    InitBM /\ InitRest /\ retries = DefaultRetries /\ InitGw("Shard") /\ InitOrchOff
    /\ InitKeyOff

NextShard ==
    \/ ShardConnect /\ UNCHANGED otherThanGw
    \/ ShardDisconnect /\ UNCHANGED otherThanGw
    \/ NextWire

SpecShard == InitShard /\ [][NextShard]_vars

\* The Gateway client on connections whose messages may carry a sequence
\* number under any opcode; the application does not disconnect and the
\* server sends no Reconnect.
NextSeq ==
    \/ GatewayConnect /\ UNCHANGED otherThanGw
    \/ \E tg \in Targets : SocketOpens(tg) /\ UNCHANGED otherThanGw
    \/ \E tg \in Targets, i \in HelloIntervals : \E j \in Jitters(i) :
          Delivers(tg, Msg("Hello", NoSeq, Null, i), j) /\ UNCHANGED otherThanGw
    \/ \E tg \in Targets, q \in Seqs, sid \in SessionIds, url \in ResumeUrls :
          Delivers(tg, Msg("Dispatch", q, "READY", [session_id |-> sid, resume_gateway_url |-> url]), 0)
          /\ UNCHANGED otherThanGw
    \/ \E tg \in Targets, q \in Seqs :
          Delivers(tg, Msg("Dispatch", q, "RESUMED", Null), 0) /\ UNCHANGED otherThanGw
    \/ \E tg \in Targets, q \in Seqs \cup {NoSeq} :
          Delivers(tg, Msg("Heartbeat", q, Null, Null), 0) /\ UNCHANGED otherThanGw
    \/ \E tg \in Targets, q \in Seqs \cup {NoSeq}, b \in BOOLEAN, d \in InvalidSessionDelays :
          Delivers(tg, Msg("InvalidSession", q, Null, b), d) /\ UNCHANGED otherThanGw
    \/ \E tg \in Targets, q \in Seqs \cup {NoSeq} :
          Delivers(tg, Msg("HeartbeatAck", q, Null, Null), 0) /\ UNCHANGED otherThanGw
    \/ \E tg \in Targets, code \in ServerCloseCodes \cup {1006, 4000} :
          SocketCloses(tg, code) /\ UNCHANGED otherThanGw
    \/ \E t \in BagToSet(timers) : TimerFires(t) /\ UNCHANGED otherThanGw
    \/ Advance /\ UNCHANGED otherThanGw

SpecSeq == InitGateway /\ [][NextSeq]_vars

\* The sockets opened to reconnect since the last READY or RESUMED, after a
\* step from a state where n were: every socket opened other than by
\* connect() is a reconnection.
Reconnected(n) ==
    IF ev'.type = "message" /\ ev'.what \in {"READY", "RESUMED"} THEN 0
    ELSE IF ev'.url # "none" /\ ev'.type # "connect" THEN n + 1
    ELSE n

Counting ==
    /\ reconnects' = Reconnected(reconnects)
    /\ reconnects' <= MaxReconnects
    /\ UNCHANGED <<warn, hub>>

\* The Gateway client with its reconnections counted: closes, Reconnect
\* messages and unacknowledged heartbeats, and no disconnect().
NextAttempts ==
    \/ GatewayConnect /\ Counting /\ UNCHANGED otherThanShard
    \/ \E tg \in Targets : SocketOpens(tg) /\ Counting /\ UNCHANGED otherThanShard
    \/ \E tg \in Targets, i \in HelloIntervals : \E j \in Jitters(i) :
          Delivers(tg, Msg("Hello", NoSeq, Null, i), j) /\ Counting /\ UNCHANGED otherThanShard
    \/ \E tg \in Targets, q \in Seqs, sid \in SessionIds, url \in ResumeUrls :
          Delivers(tg, Msg("Dispatch", q, "READY", [session_id |-> sid, resume_gateway_url |-> url]), 0)
          /\ Counting /\ UNCHANGED otherThanShard
    \/ \E tg \in Targets, q \in Seqs :
          Delivers(tg, Msg("Dispatch", q, "RESUMED", Null), 0)
          /\ Counting /\ UNCHANGED otherThanShard
    \/ \E tg \in Targets :
          Delivers(tg, Msg("Heartbeat", NoSeq, Null, Null), 0)
          /\ Counting /\ UNCHANGED otherThanShard
    \/ \E tg \in Targets :
          Delivers(tg, Msg("Reconnect", NoSeq, Null, Null), 0)
          /\ Counting /\ UNCHANGED otherThanShard
    \/ \E tg \in Targets :
          Delivers(tg, Msg("HeartbeatAck", NoSeq, Null, Null), 0)
          /\ Counting /\ UNCHANGED otherThanShard
    \/ \E tg \in Targets, code \in ServerCloseCodes \cup {1006, 4000} :
          SocketCloses(tg, code) /\ Counting /\ UNCHANGED otherThanShard
    \/ \E t \in BagToSet(timers) : TimerFires(t) /\ Counting /\ UNCHANGED otherThanShard
    \/ Advance /\ Counting /\ UNCHANGED otherThanShard

SpecAttempts == InitGateway /\ [][NextAttempts]_vars

\* A createShard shard with room for one more timer: the heartbeat interval
\* and the timeouts of two heartbeats.  The server sends Hello, READY,
\* Heartbeat requests and acks; the application does not disconnect.
BeatCommit(w, e) ==
    /\ BagCardinality(w.timers) <= MaxBeatTimers
    /\ BagCardinality(w.orphans) <= MaxSockets
    /\ shard' = w.g
    /\ orphans' = w.orphans
    /\ timers' = w.timers
    /\ sent' = w.sent
    /\ ev' = [e EXCEPT !.err = w.err, !.ms = w.ms, !.url = w.url]
    /\ impl' = impl
    /\ hold' = hold

\* ws.onmessage
BeatDelivers(tg, m, rnd) ==
    /\ tg.sock.rs = "OPEN"
    /\ MayServerSend(tg.sock, m)
    /\ BeatCommit(ShHandleMessage(PutSocket(World, tg, ServerSent(tg.sock, m)), m, rnd),
                  Event("message", IF m.op = "Dispatch" THEN m.t ELSE m.op, 0, tg.cur))

\* ws.onclose: the end of a close the shard began, or a close by the server.
BeatCloses(tg, code) ==
    /\ \/ tg.sock.rs = "CLOSING" /\ code = tg.sock.code
       \/ tg.sock.rs = "OPEN" /\ code = 1000
    /\ BeatCommit(ShHandleClose(PutSocket(World, tg, [NoSock EXCEPT !.rs = "CLOSED"]), code),
                  Event("close", "close", code, tg.cur))

\* A due timer runs its callback; an interval is armed again first.
BeatTimerFires(t) ==
    /\ t.left = 0
    /\ LET w == IF t.kind = "hbInterval"
                THEN [World EXCEPT !.timers = (@ (-) SetToBag({t})) (+)
                                              SetToBag({[t EXCEPT !.left = Ticks(t.every)]})]
                ELSE Expire(World, t) IN
       BeatCommit(ShTimer(w, t), Event("timer", t.kind, 0, TRUE))

NextBeat ==
    \/ ShardConnect /\ UNCHANGED otherThanGw
    \/ \E tg \in Targets : SocketOpens(tg) /\ UNCHANGED otherThanGw
    \/ \E tg \in Targets, i \in HelloIntervals : \E j \in Jitters(i) :
          BeatDelivers(tg, Msg("Hello", NoSeq, Null, i), j) /\ UNCHANGED otherThanGw
    \/ \E tg \in Targets, q \in Seqs, sid \in SessionIds, url \in ResumeUrls :
          BeatDelivers(tg, Msg("Dispatch", q, "READY", [session_id |-> sid, resume_gateway_url |-> url]), 0)
          /\ UNCHANGED otherThanGw
    \/ \E tg \in Targets :
          BeatDelivers(tg, Msg("Heartbeat", NoSeq, Null, Null), 0) /\ UNCHANGED otherThanGw
    \/ \E tg \in Targets :
          BeatDelivers(tg, Msg("HeartbeatAck", NoSeq, Null, Null), 0) /\ UNCHANGED otherThanGw
    \/ \E tg \in Targets, code \in {1000, 1006, 4000} :
          BeatCloses(tg, code) /\ UNCHANGED otherThanGw
    \/ \E t \in BagToSet(timers) : BeatTimerFires(t) /\ UNCHANGED otherThanGw
    \/ Advance /\ UNCHANGED otherThanGw

SpecBeat == InitShard /\ [][NextBeat]_vars

\* The orchestrator's handler registration, on its own.
otherThanHub == <<bmVars, restVars, gwVars, orchVars, keyVars, reconnects, warn>>

InitHub ==
    InitBM /\ InitRest /\ retries = DefaultRetries /\ InitGwOff /\ InitOrchOff
    /\ InitKeyOff

NextHub ==
    \/ HubConnect /\ UNCHANGED otherThanHub
    \/ HubSpawn /\ UNCHANGED otherThanHub
    \/ HubDisconnect /\ UNCHANGED otherThanHub
    \/ \E e \in EventNames, h \in HandlerIds : HubOn(e, h) /\ UNCHANGED otherThanHub
    \/ \E e \in EventNames, h \in HandlerIds : HubOff(e, h) /\ UNCHANGED otherThanHub
    \/ \E id \in HubShardIds, e \in EventNames : ShardEmits(id, e) /\ UNCHANGED otherThanHub

SpecHub == InitHub /\ [][NextHub]_vars

\* The REST client's invalid-request accounting with its warning timer.
NextWarn ==
    \/ TrackInvalidRequest /\ UNCHANGED <<gwVars, orchVars, keyVars>>
    \/ WarningTimer /\ UNCHANGED <<gwVars, orchVars, keyVars>>
    \/ WarnClock /\ UNCHANGED <<gwVars, orchVars, keyVars>>

SpecWarn == InitBucket /\ [][NextWarn]_vars

InitOrchSpec ==
    InitBM /\ InitRest /\ retries = DefaultRetries /\ InitGwOff /\ InitOrch(ShardsOptions)
    /\ InitKeyOff

NextOrch ==
    \/ OrchConnect /\ UNCHANGED otherThanOrch
    \/ \E info \in GatewayBotInfos : Discovered(info) /\ UNCHANGED otherThanOrch
    \/ DiscoveryFails /\ UNCHANGED otherThanOrch
    \/ \E id \in ShardIdSet : ShardOpens(id) /\ UNCHANGED otherThanOrch
    \/ \E id \in ShardIdSet : ShardErrors(id) /\ UNCHANGED otherThanOrch
    \/ SleepEnds /\ UNCHANGED otherThanOrch
    \/ OrchDisconnect /\ UNCHANGED otherThanOrch

SpecOrch == InitOrchSpec /\ [][NextOrch]_vars

\* getRouteKey applied to the methods and routes of the bounded sets.
InitKey ==
    /\ InitBM /\ InitRest /\ retries = DefaultRetries /\ InitGwOff /\ InitOrchOff
    /\ \E m \in Methods, r \in Routes : routed = Called(m, r)
    /\ reconnects = 0
    /\ warn = NoWarning
    /\ hub = NoHub

NextKey == GetRouteKey /\ UNCHANGED <<bmVars, restVars, gwVars, orchVars, countVars>>

SpecKey == InitKey /\ [][NextKey]_vars

\* The orchestrator whose shards all connect, with the commands it routes.
NextRoute ==
    \/ OrchConnect /\ UNCHANGED otherThanOrch
    \/ \E info \in GatewayBotInfos : Discovered(info) /\ UNCHANGED otherThanOrch
    \/ \E id \in ShardIdSet : ShardOpens(id) /\ UNCHANGED otherThanOrch
    \/ SleepEnds /\ UNCHANGED otherThanOrch
    \/ OrchDisconnect /\ UNCHANGED otherThanOrch
    \/ UpdatePresence /\ UNCHANGED otherThanOrch
    \/ \E g \in CommandGuilds : UpdateVoiceState(g) /\ UNCHANGED otherThanOrch
    \/ \E g \in CommandGuilds : RequestGuildMembers(g) /\ UNCHANGED otherThanOrch
    \/ \E gs \in GuildLists : RequestSoundboardSounds(gs) /\ UNCHANGED otherThanOrch

SpecRoute == InitOrchSpec /\ [][NextRoute]_vars

\* ------------------------------------------------- claims, BucketManager

\* Caller c's acquire() returns in this step.
Returns(c) == acq[c].pc # "done" /\ acq'[c].pc = "done"

\* C1: for a bucket whose reset time has not passed, no more acquire() calls
\* have returned on it than the remaining count its last update() stored.
C1_AdmissionSafety ==
    \A b \in DOMAIN buckets : now < buckets[b].reset => quota[b] >= 0

\* C2: no acquire() call returns at a moment when now < globalReset.
C2_GlobalPrecedence ==
    [][\A c \in Callers : Returns(c) => now >= globalReset]_vars

\* C3: acquire(routeKey) returns only when the bucket the route resolves to,
\* if one is known, has remaining > 0 or its reset time has been reached.
C3_BucketGate ==
    [][\A c \in Callers :
         (Returns(c) /\ HasBucket(acq'[c].key))
            => (Get(acq'[c].key).remaining > 0 \/ now >= Get(acq'[c].key).reset)]_vars

\* A caller inside the section of acquire() between taking the lock and
\* releasing it; the section is left within the step unless the caller
\* sleeps.
InSection(c) == acq[c].pc = "sleeping"

\* C11: no two acquire() calls are at the same time inside the
\* wait-and-decrement section for one bucket: the bucket their route keys
\* resolve to, which is the one they will decrement.
C11_OneInSection ==
    \A c1, c2 \in Callers :
        (c1 # c2 /\ InSection(c1) /\ InSection(c2))
            => ResolveKey(acq[c1].key) # ResolveKey(acq[c2].key)

\* The bucket whose reset caller c sleeps for inside acquire(), NoKey when it
\* sleeps for none.
WaitsOn(c) ==
    IF acq[c].pc = "sleeping" /\ acq[c].slept \notin {"no", "global"}
    THEN acq[c].slept ELSE NoKey

\* C12: while a caller waits inside acquire() for the reset of an exhausted
\* bucket A, an acquire() on a route that resolves to another bucket B, with
\* no global limit active and B unknown or with quota, returns in the step
\* that calls it.
C12_OtherBucketNotDelayed ==
    [][\A c1, c2 \in Callers, key \in RouteKeys :
         (/\ c1 # c2
          /\ WaitsOn(c1) \in DOMAIN buckets
          /\ buckets[WaitsOn(c1)].remaining <= 0
          /\ buckets[WaitsOn(c1)].reset > now
          /\ acq[c2].pc = "idle" /\ acq'[c2].pc # "idle" /\ acq'[c2].key = key
          /\ ResolveKey(key) # WaitsOn(c1)
          /\ globalReset <= now
          /\ (~HasBucket(key) \/ Get(key).remaining > 0))
         => acq'[c2].pc = "done"]_vars

\* C13: route keys whose last responses reported the same server bucket id
\* resolve to one bucket, which exists, so get() returns the same bucket
\* through either; this lasts until a sweep removes the bucket.
C13_BucketConvergence ==
    \A k1, k2 \in DOMAIN observed :
        observed[k1] = observed[k2] =>
            /\ HasBucket(k1) /\ HasBucket(k2)
            /\ ResolveKey(k1) = ResolveKey(k2)
            /\ Get(k1) = Get(k2)

\* C13 witness: two route keys share a bucket, and the decrement of an
\* acquire() through one of them shows through the other.
C13_Witness ==
    \E k1, k2 \in DOMAIN observed, c \in Callers :
        /\ k1 # k2 /\ observed[k1] = observed[k2]
        /\ acq[c].pc = "done" /\ acq[c].key = k1 /\ acq[c].slept = "no"
        /\ HasBucket(k2) /\ Get(k2).remaining = 0 /\ Get(k2).reset > now
        /\ quota[ResolveKey(k2)] = 0

\* C17: sweep() removes the buckets whose reset is earlier than now and no
\* other, then the aliases whose bucket is gone and no other; the entries
\* kept are unchanged, the locks and the global reset are untouched, the
\* number returned is the number of buckets removed, and a sweep() repeated
\* at once would remove nothing and return 0.
C17_SweepExact ==
    [][Sweep =>
         /\ DOMAIN buckets' = {k \in DOMAIN buckets : buckets[k].reset >= now}
         /\ \A k \in DOMAIN buckets' : buckets'[k] = buckets[k]
         /\ DOMAIN bucketKeys' =
               {r \in DOMAIN bucketKeys : bucketKeys[r] \in DOMAIN buckets'}
         /\ \A r \in DOMAIN bucketKeys' : bucketKeys'[r] = bucketKeys[r]
         /\ locks' = locks /\ globalReset' = globalReset
         /\ SweepCount = Cardinality(DOMAIN buckets) - Cardinality(DOMAIN buckets')
         /\ SweepBuckets' = buckets'
         /\ SweepBucketKeys' = bucketKeys'
         /\ SweepCount' = 0]_vars

\* C17 witness: a sweep has removed the bucket a caller is still waiting on
\* and has kept a bucket whose reset lies in the future.
C17_Witness ==
    \E c \in Callers :
        /\ acq[c].pc = "sleeping"
        /\ acq[c].slept \notin {"global", "no"}
        /\ acq[c].slept \notin DOMAIN buckets
        /\ \E k \in DOMAIN buckets : buckets[k].reset > now

\* ------------------------------------------------- claims, REST.request

CaughtRateLimit(c) ==
    /\ req[c].pc \in {"fetch", "rlBody"}
    /\ req'[c].pc \in {"retrySleep", "failed"}
    /\ req'[c].cause = "RateLimitError"

C15_AuthNotRetried ==
    [][\A c \in RestCallers, r \in Responses :
         (r.status \in {401, 403} /\ RestResponse(c, r))
            => (req'[c].pc = "failed" /\ req'[c].outcome \in {"RESTError", "CloudflareError"})]_vars

\* The responses that count as invalid requests.
InvalidResponses ==
    {r \in Responses : r.status \in {401, 403} \/ (r.status = 429 /\ r.scope # "shared")}

\* C21: a response with status 401 or 403, or with status 429 and a scope
\* other than "shared", adds one to the invalid-request counter of the
\* running window; no other response and no other step changes the counter.
C21_InvalidCountedOnce ==
    [][/\ \A c \in RestCallers, r \in InvalidResponses :
            RestResponse(c, r) => invalidRequestCount' = invalidRequestCount + 1
       /\ invalidRequestCount' # invalidRequestCount =>
            \E c \in RestCallers, r \in InvalidResponses : RestResponse(c, r)]_vars

\* C32: every entry of the alias table maps its route key to a bucket key
\* that is in the bucket table.
C32_AliasesResolve == \A r \in DOMAIN bucketKeys : bucketKeys[r] \in DOMAIN buckets

\* C32 witness: both route keys are aliased to a bucket whose reset has
\* passed, which the next sweep removes together with the aliases.
C32_Witness ==
    /\ DOMAIN bucketKeys = RouteKeys
    /\ \A r \in RouteKeys : bucketKeys[r] \in DOMAIN buckets /\ buckets[bucketKeys[r]].reset < now

\* C33: while a bucket keeps its reset time, no step raises its remaining
\* count.
C33_RemainingDecreases ==
    [][\A k \in DOMAIN buckets \cap DOMAIN buckets' :
          (buckets'[k].reset = buckets[k].reset /\ buckets[k].reset > now)
              => buckets'[k].remaining <= buckets[k].remaining]_vars

\* C34: a run of the warning timer emits a warning only when an invalid
\* request was recorded less than the window of 10 minutes before it.
C34_WarningWithinWindow ==
    warn.count > 0 => (warn.age >= 0 /\ warn.age < INVALID_REQUEST_WINDOW)

\* The three transient failures of an attempt: the timeout, a 5xx status
\* with a JSON body, and a body whose Content-Type is not JSON.
TransientError(r) ==
    IF r.status >= 500 /\ r.json THEN "RESTError" ELSE "CloudflareError"

TransientResponses ==
    {r \in Responses : /\ r.status \notin {204, 429}
                       /\ r.parses
                       /\ r.status >= 500 \/ ~r.json}

HandledHello == ev.type = "message" /\ ev.what = "Hello"

\* C4: the step that handles Hello sends exactly one payload: Resume, with
\* the held sequence, when the shard holds a session id and a sequence at
\* that moment, and Identify otherwise.
C4_HelloAnswer ==
    HandledHello =>
        IF shard.sessionId # Null /\ shard.sequence # NoSeq
        THEN sent = <<[op |-> "Resume", d |-> shard.sequence]>>
        ELSE sent = <<[op |-> "Identify", d |-> NoSeq]>>

\* The status of a shard that is down for good, and the cap on its
\* reconnect attempts, by implementation.
Terminal == IF impl = "Gateway" THEN "Idle" ELSE "disconnected"
ReconnectCap == IF impl = "Gateway" THEN GwMaxReconnectAttempts ELSE ShMaxReconnectAttempts

PendingKind(ts, kind) == \E t \in BagToSet(ts) : t.kind = kind
Connecting(sh) == sh.ws.rs = "CONNECTING"

\* A step in which the shard neither sets a reconnect timer nor opens a
\* socket.
StaysDown ==
    /\ ~PendingKind(timers, "reconnect") => ~PendingKind(timers', "reconnect")
    /\ Connecting(shard') => Connecting(shard) /\ orphans' = orphans

\* C5: from the handling of a close with a non-resumable code until the
\* application calls connect(), the status is the terminal one, no
\* reconnect timer is set and no socket is opened.
C5_NonResumableIsFinal ==
    /\ [](hold = "fatal" => shard.status = Terminal)
    /\ [][(hold = "fatal" /\ hold' = "fatal") => StaysDown]_vars

\* C6: the handling of a close with a code outside the non-resumable set,
\* by a shard below its cap of reconnect attempts, leaves a reconnect timer
\* set.
C6_OtherCodesReconnect ==
    [][(ev'.type = "close" /\ ev'.code \notin NON_RESUMABLE_CLOSE_CODES
            /\ shard.reconnectAttempts < ReconnectCap)
        => PendingKind(timers', "reconnect")]_vars

\* C9: a heartbeat tick on an open link with a heartbeat sent and not
\* acknowledged sends nothing and leaves the shard without that open link.
C9_ZombieTick ==
    [][(ev'.type = "timer" /\ ev'.what = "hbInterval"
            /\ shard.ws.rs = "OPEN" /\ shard.ws.hb > 0)
        => sent' = <<>> /\ shard'.ws.rs # "OPEN"]_vars

\* C10: from disconnect() until the application calls connect(), the shard
\* sets no reconnect timer and opens no socket.
C10_DisconnectIsFinal ==
    [][(hold = "disconnect" /\ hold' = "disconnect") => StaysDown]_vars

\* C14: the handling of a close that ends the shard's retrying, one with a
\* non-resumable code or one that finds the reconnect attempts used up,
\* reports an error.
C14_TerminalSurfaced ==
    [][(ev'.type = "close"
            /\ (ev'.code \in NON_RESUMABLE_CLOSE_CODES
                    \/ shard.reconnectAttempts >= ReconnectCap))
        => ev'.err # "none"]_vars

\* The shard is torn down in this step: disconnect(), or the close of the
\* socket it holds is handled.
TornDown == ev'.type = "disconnect" \/ (ev'.type = "close" /\ ev'.cur)

\* C22: a teardown leaves no timer pending, but for the one reconnect timer
\* the handling of a close sets.
C22_TimersCancelled ==
    [][TornDown =>
         \A t \in BagToSet(timers') :
            /\ ev'.type = "close"
            /\ t.kind = "reconnect"
            /\ CopiesIn(t, timers') = 1]_vars

\* C23: a shard holds a session id or a sequence number only while its
\* status is Ready or Resuming.
C23_SessionOnlyWhenReady ==
    (shard.sessionId # Null \/ shard.sequence # NoSeq)
        => shard.status \in {"Ready", "Resuming", "ready", "resuming"}

\* C24: the handling of a close with a non-resumable code, of the socket
\* the shard holds, leaves the shard without session id and sequence.
C24_NonResumableClears ==
    [][(ev'.type = "close" /\ ev'.cur /\ ev'.code \in NON_RESUMABLE_CLOSE_CODES)
        => (shard'.sessionId = Null /\ shard'.sequence = NoSeq)]_vars

\* A message with a sequence number is handled in this step.
Numbered == ev'.type = "message" /\ ev'.s # NoSeq

\* Every Heartbeat and Resume sent in this step carries the number n.
Carries(n) ==
    \A i \in 1..Len(sent') : sent'[i].op \in {"Heartbeat", "Resume"} => sent'[i].d = n

C26_HeartbeatOnRequest ==
    [][(ev'.type = "message" /\ ev'.what = "Heartbeat" /\ ev'.cur) =>
          /\ sent' = <<[op |-> "Heartbeat",
                        d |-> IF ev'.s # NoSeq THEN ev'.s ELSE shard.sequence]>>
          /\ shard'.ws.rs = "OPEN"
          /\ orphans' = orphans]_vars

\* The URL a reconnection is opened on: the resume URL when one is stored.
ResumePath == IF shard.resumeUrl # Null THEN "resume" ELSE "gateway"

\* The socket the shard has closed with its internal code.
Closing4000 == [NoSock EXCEPT !.rs = "CLOSING", !.code = 4000]

ReconnectTimer == [kind |-> "reconnect", left |-> 0, every |-> 0, held |-> NoTimer]

InvalidSessionIs(b) ==
    \E tg \in Targets, d \in InvalidSessionDelays :
        tg.cur /\ Delivers(tg, Msg("InvalidSession", NoSeq, Null, b), d)

DelayTimer(kind) == [kind |-> kind, left |-> 0, every |-> 0, held |-> NoTimer]

Armed(kind) == CopiesIn(DelayTimer(kind), timers') = CopiesIn(DelayTimer(kind), timers) + 1

C29_BackoffDelay ==
    [][(ev'.type = "close" /\ shard'.reconnectAttempts = shard.reconnectAttempts + 1) =>
          ev'.ms = Smaller(1000 * 2 ^ shard.reconnectAttempts, 30000)]_vars

\* C30: every READY and every RESUMED sets the reconnect-attempt counter to
\* 0, and the shard opens at most 5 sockets to reconnect between two such
\* dispatches, whether a close, a Reconnect message or an unacknowledged
\* heartbeat made it reconnect.
C30_AttemptsCapped ==
    [][/\ (ev'.type = "message" /\ ev'.what \in {"READY", "RESUMED"}) =>
            shard'.reconnectAttempts = 0
       /\ reconnects' <= ReconnectCap]_vars

\* C36: on the Gateway client, the first heartbeat tick of a connection (the
\* timer startHeartbeat armed at its Hello), met on an open socket, sends one
\* heartbeat carrying the current sequence and keeps that socket when no
\* heartbeat sent on this connection awaits its ack, whether or not the
\* previous connection ended with a heartbeat unacknowledged.
C36_HeartbeatResumes ==
    [][(impl = "Gateway" /\ ev'.type = "timer" /\ ev'.what = "hbFirst"
            /\ shard.ws.rs = "OPEN" /\ shard.ws.hb = 0) =>
          /\ sent' = <<[op |-> "Heartbeat", d |-> shard.sequence]>>
          /\ shard'.ws.rs = "OPEN"
          /\ orphans' = orphans]_vars

\* C37: on a createShard shard, a heartbeat-timeout timer that comes due
\* while every heartbeat sent on the open connection has been acknowledged
\* leaves the connection open.
C37_AckedNeverTimedOut ==
    [][(impl = "Shard" /\ ev'.type = "timer" /\ ev'.what = "hbTimeout"
            /\ shard.ws.rs = "OPEN" /\ shard.ws.hb = 0) =>
          shard'.ws.rs = "OPEN"]_vars

\* C38: when a shard of the orchestrator has emitted an event, every handler
\* registered for that event through on() and not removed through off() has
\* been called exactly once, and every other handler has not been called.
C38_HandlersCalledOnce ==
    hub.emitted # "none" =>
        \A h \in HandlerIds :
            hub.calls[h] = IF h \in hub.handlers[hub.emitted] THEN 1 ELSE 0

\* C39: after update(key, data), for any data parseRateLimitHeaders can
\* produce (a bucket id or ""), get(key) returns a bucket, and its remaining
\* is data.remaining and its reset is data.reset * 1000.
C39_GetAfterUpdate ==
    [][\A key \in RouteKeys, data \in RateLimitData :
          Update(key, data) =>
              LET bucketKey == IF key \in DOMAIN bucketKeys' THEN bucketKeys'[key] ELSE key IN
              /\ bucketKey \in DOMAIN buckets'
              /\ buckets'[bucketKey] =
                    [remaining |-> data.remaining, reset |-> data.reset * 1000]]_vars

InAcquire(c) == acq[c].pc \in {"waitLock", "sleeping"}

\* C40: every acquire() call that waits, for the lock or for a delay,
\* returns in the end, with any number of callers on the same bucket and
\* destroy() at any moment; and whenever no acquire() call is in progress
\* the lock table is empty.
C40_AcquireReturns ==
    /\ []((\A c \in Callers : ~InAcquire(c)) => locks = EmptyMap)
    /\ \A c \in Callers : InAcquire(c) ~> (acq[c].pc = "done")

\* C40 witness: two callers of one bucket have returned, the first after
\* its sleep, and no lock is left.
C40_Witness ==
    /\ \A c \in Callers : acq[c].pc = "done"
    /\ \A c \in Callers : acq[c].bucketKey = acq[1].bucketKey
    /\ \E c \in Callers : acq[c].slept # "no"
    /\ locks = EmptyMap

\* C35: the close event of a socket that reconnect() has closed (code 4000)
\* and replaced leaves the shard's fields, the live socket it holds and
\* every timer as they are.
C35_StaleCloseIgnored ==
    [][(ev'.type = "close" /\ ~ev'.cur /\ ev'.code = 4000 /\ Alive(shard.ws))
          => (shard' = shard /\ timers' = timers)]_vars

\* ----------------------------------------------------- claims, orchestrator
Ceil(n, m) == (n + m - 1) \div m

ConnectingShards == {id \in ShardIdSet : attempt[id] = "connecting"}

\* C7: N shards brought up with maxConcurrency = M start to connect in
\* ceil(N / M) waves, and at no time are more than M of them in a connect
\* attempt the orchestrator started.
C7_WavesOfAtMostM ==
    /\ Cardinality(ConnectingShards) <= maxConcurrency
    /\ spawn.pc = "done" => waves = Ceil(Len(shardIds), maxConcurrency)

\* The shards this step starts to connect.
Started == {id \in ShardIdSet : attempt'[id] = "connecting" /\ attempt[id] # "connecting"}

\* C31: the shards of a bucket after the first are started only out of the
\* sleep of at least 5000 ms that spawnShards began when the connect() of
\* every shard of the bucket before had settled.
C31_BucketAfterBucket ==
    [][(Started # {} /\ waves' > 1) =>
          /\ spawn.pc = "sleeping" /\ spawn.ms >= 5000
          /\ \A o \in Range(spawn.buckets[spawn.at]) : ~InFlight(o)
          /\ Started = Range(spawn'.buckets[spawn'.at])
          /\ spawn'.at > spawn.at]_vars

\* C31 witness: a second bucket of two shards has been started after the
\* sleep, the two shards of the first bucket being open.
C31_Witness ==
    /\ spawn.pc = "awaiting" /\ waves = 2
    /\ Cardinality(ConnectingShards) = 2
    /\ Cardinality({id \in ShardIdSet : attempt[id] = "open"}) = 2

\* The shards owning the guilds named: (guildId >> 22) mod shardCount.
Owners(guilds) == {(guilds[i] \div 2^22) % shardCount : i \in 1..Len(guilds)} \cap shards

\* C18: a presence update is handed to every shard of the map; a voice
\* state update, a member request and a sound request are handed to the
\* shards of the map that own the guilds the command names, and to no other.
C18_RoutedToOwners ==
    [][/\ UpdatePresence => cmd'.to = shards
       /\ \A g \in CommandGuilds :
            /\ UpdateVoiceState(g) => cmd'.to = Owners(<<g>>)
            /\ RequestGuildMembers(g) => cmd'.to = Owners(<<g>>)
       /\ \A gs \in GuildLists \ {<<>>} :
            RequestSoundboardSounds(gs) => cmd'.to = Owners(gs)]_vars

\* C19: the shard id of a guild is (guildId >> 22) mod shardCount under the
\* shard count of the moment: a number of 0..shardCount-1, the same for two
\* ids that differ only in their low 22 bits.
C19_ShardOfGuild ==
    \A g \in GuildIds :
        /\ getShardIdForGuild(g) = (g \div 2^22) % shardCount
        /\ getShardIdForGuild(g) \in 0..(shardCount - 1)
        /\ \A h \in GuildIds :
              g \div 2^22 = h \div 2^22 => getShardIdForGuild(g) = getShardIdForGuild(h)

\* C19 witness: under the largest shard count a command was routed to the
\* last shard for a guild id whose low bits are all set.
C19_Witness ==
    /\ shardCount = MaxShards
    /\ cmd.op = "VoiceStateUpdate"
    /\ cmd.guilds[1] % 2^22 = 2^22 - 1
    /\ cmd.guilds[1] \div 2^22 >= MaxShards
    /\ cmd.to = {getShardIdForGuild(cmd.guilds[1])}

\* -------------------------------------------------- claims, getRouteKey
\* The path template of a route: every numeric segment collapsed.
Collapsed(route) ==
    [i \in 1..Len(route) |-> IF route[i] \in Ids THEN ":id" ELSE route[i]]

\* The major parameter of a route: the id and token of its webhook, else
\* the id of its channel, guild or webhook, else nothing.
RECURSIVE MajorParameter(_)
MajorParameter(route) ==
    IF Len(route) < 2 THEN <<>>
    ELSE IF Len(route) >= 3 /\ route[1] = "webhooks" /\ route[2] \in Ids
         THEN <<route[2], route[3]>>
    ELSE IF \E i \in 1..(Len(route) - 2) : route[i] = "webhooks" /\ route[i + 1] \in Ids
         THEN MajorParameter(Tail(route))
    ELSE IF route[1] \in {"channels", "guilds", "webhooks"} /\ route[2] \in Ids
         THEN <<route[2]>>
    ELSE MajorParameter(Tail(route))

KeyOf == [m \in Methods, r \in Routes |-> getRouteKey(m, r)]

TemplateAndMajor == [r \in Routes |-> <<Collapsed(r), MajorParameter(r)>>]

====
